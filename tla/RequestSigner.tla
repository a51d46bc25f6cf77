---------------------------- MODULE RequestSigner ----------------------------
(***************************************************************************)
(* The signers of requests: AWSSigner, GCPSigner and AzureSigner           *)
(* (src/cloud/*_signer.cpp), each with the server that verifies.           *)
(*                                                                         *)
(* A message is its lines and the value its symbol "signature" stands for: *)
(* the key and the string that are signed.  Digests are injective, so a    *)
(* string is signed as what it is printed from; what is sorted there is a  *)
(* set or a function here.  A server knows the keys and sees the message   *)
(* alone: what it verifies is computed from the lines.                     *)
(***************************************************************************)
EXTENDS HttpRequest, Functions

Word(w) == <<w>>
Header(name, value) == Word(name) :> value
Empty == <<>>

LowerCase ==
  ("Host" :> "host") @@ ("Range" :> "range") @@ ("Date" :> "date")
    @@ ("Content-Length" :> "content-length") @@ ("Content-MD5" :> "content-md5")
    @@ ("Authorization" :> "authorization")

Lower(name) == IF Head(name) \in DOMAIN LowerCase THEN Word(LowerCase[Head(name)]) ELSE name

Sorted(headers) ==
  [name \in {Lower(n) : n \in DOMAIN headers} |->
     headers[CHOOSE n \in DOMAIN headers : Lower(n) = name]]

Escaped(queries) ==
  {<<encodeUrlParameters(k), encodeUrlParameters(queries[k])>> : k \in DOMAIN queries}

\* The arguments as a server reads them.
Received(queries) == [k \in {Decoded(e) : e \in DOMAIN queries} |->
                        Decoded(queries[CHOOSE e \in DOMAIN queries : Decoded(e) = k])]

Names(headers) == Joined(Listed(DOMAIN headers), ";")
Path(path) == IF path = Empty THEN <<"/">> ELSE path

\* Timestamps are a date of eight characters and the rest.
Timestamp == <<"21000101", "T000000Z">>
Date(timestamp) == SubSeq(timestamp, 1, 1)

-----------------------------------------------------------------------------
(* Bodies: none, one of at most a KiB, and a longer one. *)

Bodies == {"", "short", "long"}
SizeOf == ("" :> Word("0")) @@ ("short" :> Word("100")) @@ ("long" :> Word("2000"))
Digest(hash, body) == <<hash, body>>

Payload(body) == IF body = "long" THEN Word("UNSIGNED-PAYLOAD") ELSE Digest("sha256", body)

-----------------------------------------------------------------------------
(* AWS, signature version 4. *)

AWSContent(request, body) ==
  Header("x-amz-content-sha256", Payload(body))
    @@ (IF body # "long" /\ request.method \in {"PUT", "POST"}
          THEN Header("Content-MD5", Digest("md5", body)) ELSE Empty)

AWSCanonical(method, path, queries, headers, payload) ==
  <<method, Path(path), Escaped(queries), headers, DOMAIN headers, payload>>

AWSScope(date, region) == Date(date) \o <<"/">> \o region \o <<"/", "s3", "/", "aws4_request">>

AWSSignature(secret, date, region, canonical) ==
  [key |-> <<secret, Date(date), region, "s3">>,
   of  |-> <<date, AWSScope(date, region), canonical>>]

\* Mutant: the headers are listed before the digest of the body becomes one.
AWSHeadersEarly(request, body) == Sorted(request.headers)

AWSHeaders(request, body) == Sorted(request.headers @@ AWSContent(request, body))

AWSSigned(key, region, request, body) ==
  LET headers == request.headers @@ AWSContent(request, body)
      sorted == AWSHeaders(request, body)
      date == headers[Word("x-amz-date")]
      canonical == AWSCanonical(request.method, request.path, request.queries, sorted,
                                Payload(body))
      authorization ==
        <<"Credential=">> \o key.id \o <<"/">> \o AWSScope(date, region)
          \o <<"SignedHeaders=">> \o Names(sorted) \o <<"Signature=", "signature">>
  IN [lines     |-> Lines(request.method,
                          Path(request.path) \o <<"?">> \o QueryText(request.queries),
                          request.type, headers @@ Header("Authorization", authorization)),
      signature |-> AWSSignature(key.secret, date, region, canonical)]

TokenHeaders == {Word("x-amz-security-token"), Word("x-amz-s3session-token")}

\* The server takes names, scope and key from the authorization; it wants the host and
\* what begins with x-amz- signed, and the body to be the one of the digests.
AWSAccepts(key, message, body) ==
  LET request == deserialize(message.lines)
      headers == Sorted(request.headers)
      authorization == headers[Word("authorization")]
      scope == Pieces(Before(After(authorization, "Credential="), "SignedHeaders="), "/")
      names == ToSet(Pieces(Before(After(authorization, "SignedHeaders="),
                                  "Signature="), ";"))
      payload == headers[Word("x-amz-content-sha256")]
      canonical == AWSCanonical(request.method, request.path, Received(request.queries),
                                Restrict(headers, names), payload)
  IN  /\ request # Invalid
      /\ DOMAIN headers \ {Word("authorization"), Word("range"), Word("content-length"),
                           Word("content-md5")} \subseteq names
      /\ payload \in {Digest("sha256", body), Word("UNSIGNED-PAYLOAD")}
      /\ Word("content-md5") \in DOMAIN headers =>
           headers[Word("content-md5")] = Digest("md5", body)
      /\ scope[1] = key.id
      /\ key.token # Empty =>
           \E n \in TokenHeaders \cap names : headers[n] = key.token
      /\ message.signature =
           AWSSignature(key.secret, headers[Word("x-amz-date")], scope[3], canonical)

-----------------------------------------------------------------------------
(* GCP, signed addresses. *)

GCPSignature(privateKey, date, scope, method, path, queries, headers) ==
  [key |-> privateKey,
   of  |-> <<encodeUrlParameters(date), scope,
             <<method, Path(path), Escaped(queries), headers, DOMAIN headers>> >>]

GCPSigned(key, region, request) ==
  LET sorted == Sorted(request.headers)
      date == request.queries[Word("X-Goog-Date")]
      scope == Date(date) \o <<"/">> \o region \o <<"/", "storage", "/", "goog4_request">>
      queries == request.queries
                   @@ Header("X-Goog-Algorithm", Word("GOOG4-RSA-SHA256"))
                   @@ Header("X-Goog-Credential", key.id \o <<"/">> \o scope)
                   @@ Header("X-Goog-Expires", Word("3600"))
                   @@ Header("X-Goog-SignedHeaders", Names(sorted))
  IN [lines     |-> Lines(request.method,
                          Path(request.path) \o <<"?">> \o QueryText(queries)
                            \o <<"&", "x-goog-signature", "=", "signature">>,
                          request.type, request.headers),
      signature |-> GCPSignature(key.secret, date, scope, request.method, request.path,
                                 queries, sorted)]

GCPAccepts(key, message) ==
  LET request == deserialize(message.lines)
      queries == Received(request.queries)
      signed == Restrict(queries, DOMAIN queries \ {Word("x-goog-signature")})
      credential == queries[Word("X-Goog-Credential")]
      names == ToSet(Pieces(queries[Word("X-Goog-SignedHeaders")], ";"))
  IN  /\ request # Invalid
      /\ Word("x-goog-signature") \in DOMAIN queries
      /\ Word("host") \in names
      /\ Before(credential, "/") = key.id
      /\ message.signature =
           GCPSignature(key.secret, queries[Word("X-Goog-Date")], After(credential, "/"),
                        request.method, request.path, signed,
                        Restrict(Sorted(request.headers), names))

-----------------------------------------------------------------------------
(* Azure, shared key. *)

AzureStandard == {Word(n) : n \in
  {"Content-Encoding", "Content-Language", "Content-Length", "Content-MD5", "Content-Type",
   "Date", "If-Modified-Since", "If-Match", "If-None-Match", "If-Unmodified-Since", "Range"}}
AzureOwn == {Word(n) : n \in {"x-ms-date", "x-ms-blob-type", "x-ms-version"}}

AzureSignature(key, request, headers) ==
  [key |-> key.secret,
   of  |-> <<request.method,
             [n \in AzureStandard |-> IF n \in DOMAIN headers THEN headers[n] ELSE Empty],
             Restrict(headers, AzureOwn \cap DOMAIN headers),
             <<"/">> \o key.id \o request.path, request.queries>>]

\* Arguments are joined to their values by "&" (azure_signer.cpp:121); no request has any.
AzureSigned(key, request) ==
  LET headers == request.headers @@ Header("x-ms-version", Word("2015-02-21"))
      query == Joined(Listed({Joined(e, "&") : e \in Escaped(request.queries)}), "&")
      authorization == <<"SharedKey ">> \o key.id \o <<":", "signature">>
  IN [lines     |-> Lines(request.method,
                          Path(request.path)
                            \o (IF request.queries = Empty THEN Empty ELSE <<"?">> \o query),
                          request.type, headers @@ Header("Authorization", authorization)),
      signature |-> AzureSignature(key, request, headers)]

AzureAccepts(key, message) ==
  LET request == deserialize(message.lines)
      authorization == request.headers[Word("Authorization")]
  IN  /\ request # Invalid
      /\ Before(After(authorization, "SharedKey "), ":") = key.id
      /\ message.signature =
           AzureSignature(key, [request EXCEPT !.queries = Received(@)], request.headers)

=============================================================================

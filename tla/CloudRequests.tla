---------------------------- MODULE CloudRequests ----------------------------
(***************************************************************************)
(* The requests of the providers: from a file name to a provider           *)
(* (src/cloud/provider.cpp), from a provider and an operation to a signed  *)
(* message (aws.cpp, gcp.cpp, azure.cpp, http.cpp and the classes that     *)
(* inherit from AWS).                                                      *)
(*                                                                         *)
(* Both are functions of their arguments; the state is one request: where  *)
(* it goes, the keys, what is asked for, and its message, which is built   *)
(* once and signed again whenever the keys have changed.                   *)
(***************************************************************************)
EXTENDS RequestSigner

CONSTANTS
  BucketNames,  \* the buckets of file names
  Regions,      \* their regions
  Endpoints,    \* their endpoints
  Files,        \* the objects
  Answers,      \* external: what servers answer to the start of a multipart upload
  MaxLine       \* bound: the symbols of a first line that is signed again

ASSUME CloudRequestsAssumption == MaxLine \in Nat

-----------------------------------------------------------------------------
(* From file names to providers. *)

remoteFile ==
  ("https://" :> "HTTPS") @@ ("http://" :> "HTTP") @@ ("s3://" :> "AWS")
    @@ ("azure://" :> "Azure") @@ ("gs://" :> "GCP") @@ ("oci://" :> "Oracle")
    @@ ("ibm://" :> "IBM") @@ ("minio://" :> "MinIO")

WithEndpoint == {"https://", "http://", "minio://"}

\* The bucket of a zonal file name ends in --x-s3, or in that and one more character.
Zonal(bucket) == \E k \in {Len(bucket) - 1, Len(bucket)} : k > 1 /\ bucket[k] = "--x-s3"

getRemoteInfo(name) ==
  LET prefix == Head(name)
      endpoint == prefix \in WithEndpoint
      addressPort == Before(Tail(name), "/")
      sub == IF endpoint THEN After(Tail(name), "/") ELSE Tail(name)
      bucketRegion == Pair(Before(sub, "/"), ":")
  IN [provider |-> remoteFile[prefix],
      endpoint |-> IF endpoint THEN Before(addressPort, ":") ELSE Empty,
      port     |-> IF endpoint /\ Has(addressPort, ":") THEN Head(After(addressPort, ":"))
                   ELSE IF prefix = "https://" THEN "443" ELSE "80",
      bucket   |-> bucketRegion[1],
      region   |-> bucketRegion[2],
      zonal    |-> prefix = "s3://" /\ Zonal(bucketRegion[1])]

IBMAddress(region) == <<"s3.">> \o region \o <<".cloud-object-storage.appdomain.cloud">>

\* home is the region of the machine, from its metadata service.
makeProvider(name, https, home) ==
  LET info == getRemoteInfo(name)
      region == IF info.provider \in {"AWS", "GCP"} /\ info.region = Empty
                  THEN home ELSE info.region
  IN [info EXCEPT !.port = IF https /\ @ = "80" THEN "443" ELSE @,
                  !.region = region,
                  !.endpoint = IF info.provider = "IBM" THEN IBMAddress(region) ELSE @]

getAddress(p, key) ==
  CASE p.provider \in {"HTTP", "HTTPS", "MinIO"} -> p.endpoint
    [] p.provider = "IBM"    -> IBMAddress(p.region)
    [] p.provider = "Oracle" -> p.bucket \o <<".compat.objectstorage.">> \o p.region
                                  \o <<".oraclecloud.com">>
    [] p.provider = "GCP"    -> p.bucket \o <<".storage.googleapis.com">>
    [] p.provider = "Azure"  -> key.id \o <<".blob.core.windows.net">>
    [] p.provider = "AWS" /\ p.zonal ->
         p.bucket \o <<".s3express-">> \o After(Front(p.bucket), "--") \o <<".">>
           \o p.region \o <<".amazonaws.com">>
    [] OTHER -> p.bucket \o <<".s3.">> \o p.region \o <<".amazonaws.com">>

-----------------------------------------------------------------------------
(* Operations: what transaction.hpp asks a provider for. *)

Method ==
  ("get" :> "GET") @@ ("put" :> "PUT") @@ ("part" :> "PUT") @@ ("delete" :> "DELETE")
    @@ ("abort" :> "DELETE") @@ ("create" :> "POST") @@ ("complete" :> "POST")
Key(token) == [id |-> <<"me", "@", "here">>, secret |-> Word("secret"), token |-> token]
Keys == {Key(Empty), Key(Word("token"))}
Home == Word("home")

WithBody == {"put", "part", "complete"}

Operation(op, file, range, body, id) ==
  [op |-> op, file |-> file, range |-> range, body |-> body, uploadId |-> id]

Operations ==
  {Operation("get", f, r, "", Empty) : f \in Files, r \in {<<"0", "0">>, <<"1", "7">>}}
    \cup {Operation("put", f, <<"0", "0">>, b, Empty) : f \in Files, b \in Bodies}
    \cup {Operation("delete", f, <<"0", "0">>, "", Empty) : f \in Files}

getUploadId(body) ==
  IF Has(body, "<UploadId>") THEN Before(After(body, "<UploadId>"), "</UploadId>") ELSE Empty

UploadIds == {getUploadId(body) : body \in Answers}

MultipartOperations ==
  {Operation("create", f, <<"0", "0">>, "", Empty) : f \in Files}
    \cup {Operation("abort", f, <<"0", "0">>, "", id) : f \in Files, id \in UploadIds}
    \cup {Operation(op, f, <<"0", "0">>, b, id) :
            op \in {"part", "complete"}, f \in Files, b \in {"short", "long"}, id \in UploadIds}

UploadQueries(o) ==
  CASE o.op = "part"   -> Header("partNumber", Word("1")) @@ Header("uploadId", o.uploadId)
    [] o.op = "complete" \/ (o.op = "abort" /\ o.uploadId # Empty) ->
         Header("uploadId", o.uploadId)
    [] o.op = "create" -> Header("uploads", Empty)
    [] OTHER           -> Empty

Ranged(o) == IF o.range[1] = o.range[2] THEN Empty
             ELSE Header("Range", <<"bytes=", o.range[1], "-", o.range[2]>>)
Length(o) == Header("Content-Length", SizeOf[o.body])

Request(o, path, queries, headers) ==
  [method |-> Method[o.op], type |-> "HTTP/1.1", path |-> path, queries |-> queries,
   headers |-> headers]

\* With an endpoint the bucket is part of the path.
Pathless(p, file) == <<"/">> \o file
AWSPath(p, file) ==
  IF p.endpoint = Empty THEN <<"/">> \o file ELSE <<"/">> \o p.bucket \o <<"/">> \o file

\* buildRequest: the headers a request has already are kept.
AWSBuild(p, key, request, body) ==
  LET headers ==
        request.headers
          @@ Header("Host", getAddress(p, key))
          @@ Header("x-amz-date", Timestamp)
          @@ (IF p.zonal
                THEN Header("x-amz-s3session-token", key.token)
                ELSE Header("x-amz-request-payer", Word("requester"))
                       @@ (IF key.token = Empty THEN Empty
                           ELSE Header("x-amz-security-token", key.token)))
  IN AWSSigned(key, p.region, [request EXCEPT !.headers = headers], body)

AWSRequest(p, key, o) ==
  AWSBuild(p, key,
           Request(o, AWSPath(p, o.file), UploadQueries(o),
                   Ranged(o) @@ (IF o.op \in WithBody THEN Length(o) ELSE Empty)),
           o.body)

\* Mutant: all headers of the first message stay, its date and its signature too.
AWSResignedWhole(p, key, message, body) ==
  AWSBuild(p, key, deserialize(message.lines), body)

AWSResigned(p, key, message, body) ==
  LET request == deserialize(message.lines) IN
  AWSBuild(p, key,
           [request EXCEPT !.headers =
              Restrict(@, DOMAIN @ \cap {Word("Range"), Word("Content-Length")})],
           body)

GCPRequest(p, key, o) ==
  GCPSigned(key, p.region,
            Request(o, <<"/">> \o o.file,
                    UploadQueries(o) @@ Header("X-Goog-Date", Timestamp),
                    Header("Host", getAddress(p, key)) @@ Ranged(o) @@ Length(o)
                      @@ (IF Method[o.op] \in {"PUT", "POST"}
                            THEN Header("Date", Timestamp) ELSE Empty)))

AzureRequest(p, key, o) ==
  AzureSigned(key,
              Request(o, <<"/">> \o p.bucket \o <<"/">> \o o.file, Empty,
                      Header("x-ms-date", Timestamp) @@ Header("Host", getAddress(p, key))
                        @@ Ranged(o)
                        @@ (IF o.op \in WithBody
                              THEN Header("x-ms-blob-type", Word("BlockBlob")) @@ Length(o)
                              ELSE Empty)))

HTTPRequest(p, key, o) ==
  LET request == Request(o, <<"/">> \o o.file, Empty,
                         Header("Host", getAddress(p, key)) @@ Ranged(o)
                           @@ (IF o.op \in WithBody THEN Length(o) ELSE Empty))
  IN [lines |-> serialize(request), signature |-> Empty]

Message(p, key, o) ==
  CASE p.provider = "GCP"               -> GCPRequest(p, key, o)
    [] p.provider = "Azure"             -> AzureRequest(p, key, o)
    [] p.provider \in {"HTTP", "HTTPS"} -> HTTPRequest(p, key, o)
    [] OTHER                            -> AWSRequest(p, key, o)

-----------------------------------------------------------------------------
(* One request. *)

\* A place as its file name spells it: prefix, endpoint and port, bucket and region.  No
\* name spells the port 80, which makeProvider does not tell from none; Oracle and IBM
\* need a region (aws.hpp:99).
Places ==
  [prefix : WithEndpoint, endpoint : Endpoints, port : {Empty, Word("9000")},
   bucket : BucketNames, region : {Empty}]
    \cup {a \in [prefix : DOMAIN remoteFile \ WithEndpoint, endpoint : {Empty},
                 port : {Empty}, bucket : BucketNames, region : Regions] :
             a.prefix \in {"oci://", "ibm://"} => a.region # Empty}

Spelled(a) ==
  <<a.prefix>>
    \o (IF a.endpoint = Empty THEN Empty
        ELSE a.endpoint \o (IF a.port = Empty THEN Empty ELSE <<":">> \o a.port) \o <<"/">>)
    \o a.bucket \o (IF a.region = Empty THEN Empty ELSE <<":">> \o a.region) \o <<"/">>

ProviderOf(a, https) == makeProvider(Spelled(a), https, Home)

Asked(p) ==
  Operations \cup (IF p.provider \in {"Azure", "HTTP", "HTTPS"} THEN {} ELSE MultipartOperations)

None == [lines |-> Empty]

VARIABLES
  place, https, key, asked,
  message               \* None until it is built

vars == <<place, https, key, asked, message>>
provider == ProviderOf(place, https)

Init ==
  /\ place \in Places
  /\ https \in BOOLEAN
  /\ key \in Keys
  /\ asked \in Asked(provider)
  /\ https => asked.op = "get"          \* bound: https changes the port alone
  /\ message = None

\* getRequest, putRequest, deleteRequest and those of multipart uploads.
BuildRequest ==
  /\ message = None
  /\ message' = Message(provider, key, asked)
  /\ UNCHANGED <<place, https, key, asked>>

\* resignRequest, which AWS has and the classes that inherit from it.
ResignRequest(new) ==
  /\ message # None
  /\ Len(Head(message.lines)) < MaxLine
  /\ provider.provider \notin {"HTTP", "HTTPS", "GCP", "Azure"}
  /\ new # key
  /\ key' = new
  /\ message' = AWSResigned(provider, new, message, asked.body)
  /\ UNCHANGED <<place, https, asked>>

Next == BuildRequest \/ \E new \in Keys : ResignRequest(new)

Spec == Init /\ [][Next]_vars

-----------------------------------------------------------------------------
(* Properties. *)

\* What makes two places of a prefix two: the names of buckets are global with GCP, and
\* within the account with Azure; the path of an HTTP request is the caller's.
Where(a) ==
  CASE a.prefix \in {"http://", "https://"} -> <<a.endpoint, a.port>>
    [] a.prefix = "minio://"               -> <<a.endpoint, a.port, a.bucket>>
    [] a.prefix \in {"gs://", "azure://"}   -> <<a.bucket>>
    [] OTHER                               -> <<a.bucket, a.region>>

Target(p, m) ==
  LET request == deserialize(m.lines) IN <<request.headers[Word("Host")], p.port, request.path>>

\* Two places are asked for the same object at two addresses, or two ports, or under two
\* paths: what getRemoteInfo reads from a file name, the constructors of the providers and
\* the builders of requests agree on who keeps the bucket in the address and who in the
\* path.  A port that the name spells is used, with https 443 otherwise.
PlacesApart ==
  message # None /\ asked.op = "get" =>
    /\ \A b \in Places :
         place.prefix = b.prefix /\ Where(place) # Where(b) =>
           LET p == ProviderOf(b, https) IN
           Target(provider, message) # Target(p, Message(p, key, asked))
    /\ place.port # Empty => provider.port = Head(place.port)
    /\ place.port = Empty => (provider.port = "443" <=> https \/ place.prefix = "https://")

\* Every request the providers sign, the service it goes to verifies, and those that are
\* signed again: what it recomputes from the message it receives, escapes undone, is what
\* was signed.  Empty objects put to Azure are left out: its documentation has an empty
\* string for the length 0.
SignaturesVerify ==
  message # None =>
    CASE provider.provider = "GCP"   -> GCPAccepts(key, message)
      [] provider.provider = "Azure" ->
           (asked.op = "put" /\ asked.body = "") \/ AzureAccepts(key, message)
      [] provider.provider \in {"HTTP", "HTTPS"} -> TRUE
      [] OTHER                       -> AWSAccepts(key, message, asked.body)

\* A request that is signed again is the one its keys would have made: nothing of the old
\* signature stays, and nothing it asks for is lost on the way through deserialize.  The
\* ids of uploads must not need an escape, which would be escaped again.
ResignedIsRebuilt ==
  message # None /\ encodeUrlParameters(asked.uploadId) = asked.uploadId =>
    LET rebuilt == Message(provider, key, asked) IN
    /\ message.signature = rebuilt.signature
    /\ deserialize(message.lines) = deserialize(rebuilt.lines)

=============================================================================

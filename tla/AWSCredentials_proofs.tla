------------------------ MODULE AWSCredentials_proofs ------------------------
(***************************************************************************)
(* Proofs about AWSCredentials, for any threads and instances: a secret is *)
(* fetched by one thread at a time and only when it is due, and initSecret *)
(* returns with keys that are valid for the request built behind it.       *)
(*                                                                         *)
(* FetchesAlone carries the first (a thread between try_lock and unlock is *)
(* the one the mutex names, and the secret it replaces will not do), and   *)
(* ReturnedWithKeys the second.  The latter needs OthersKeepKeys: keys an  *)
(* instance was made with never expire, so nobody has to look again.       *)
(***************************************************************************)
EXTENDS AWSCredentials, TLAPS

\* The types of the variables: no action leaves them.
LEMMA TypeStep == TypeOK /\ WorksOnMade /\ [Next]_vars => TypeOK'
<1> SUFFICES ASSUME TypeOK, WorksOnMade, [Next]_vars PROVE TypeOK'
  OBVIOUS
<1> USE CredentialsAssumption DEF TypeOK
<1>1. CASE UNCHANGED vars
  BY <1>1 DEF vars, secrets, thread
<1>2. CASE Tick
  BY <1>2 DEF Tick, secrets, thread
<1>3. ASSUME NEW t \in Threads, NEW i \in Instances, Construct(t, i) PROVE TypeOK'
  <2>1. Key(i) \in Secret
    BY DEF Key, Secret
  <2> QED BY <1>3, <2>1 DEF Construct, thread
<1>4. ASSUME NEW t \in Threads, NEW i \in Instances, NEW place \in {"init", "getSecret"},
             Call(t, i, place)
      PROVE  TypeOK'
  BY <1>4 DEF Call, secrets, Places
<1>5. ASSUME NEW t \in Threads, Step(t) PROVE TypeOK'
  <2> USE DEF Goto, Leaves, Returns, Copies, secrets, thread, Places
  <2> DEFINE i == instance[t]
  <2>0. pc[t] # "idle" => i \in Instances
    BY DEF WorksOnMade
  <2>1. CASE InitSecret(t)
    BY <2>1 DEF InitSecret
  <2>2. CASE LockFound(t)
    BY <2>0, <2>2 DEF LockFound
  <2>3. CASE LockFetches(t)
    BY <2>0, <2>3 DEF LockFetches
  <2>4. CASE LockFails(t)
    BY <2>4 DEF LockFails
  <2>5. CASE Download(t)
    <3>1. \A l \in Lifetimes : Fetched(now + l) \in Secret
      BY DEF Fetched, Secret
    <3>2. i \in Instances
      BY <2>0, <2>5 DEF Download
    <3>3. PICK l \in Lifetimes :
             /\ globalSecret' = [globalSecret EXCEPT ![i] = Fetched(now + l)]
             /\ secret' = [secret EXCEPT ![t] = Fetched(now + l)]
      BY <2>5 DEF Download
    <3> QED BY <2>5, <3>1, <3>2, <3>3 DEF Download
  <2>6. CASE DownloadRefused(t)
    BY <2>0, <2>6 DEF DownloadRefused
  <2>7. CASE DownloadThrows(t)
    BY <2>0, <2>7 DEF DownloadThrows
  <2>8. CASE DownloadNamesNobody(t)
    BY <2>8 DEF DownloadNamesNobody
  <2>9. CASE Downloaded(t)
    BY <2>9 DEF Downloaded
  <2>10. CASE TrySession(t)
    BY <2>0, <2>10 DEF TrySession
  <2>11. CASE SessionCrashes(t)
    BY <2>0, <2>11 DEF SessionCrashes
  <2>12. CASE GetSecret(t)
    BY <2>0, <2>12 DEF GetSecret
  <2>13. CASE Build(t)
    BY <2>13 DEF Build
  <2> QED BY <1>5, <2>1, <2>2, <2>3, <2>4, <2>5, <2>6, <2>7, <2>8, <2>9, <2>10, <2>11,
             <2>12, <2>13 DEF Step
<1> QED BY <1>1, <1>2, <1>3, <1>4, <1>5 DEF Next

\* An instance that has a secret keeps one.
LEMMA SecretsStay == TypeOK /\ WorksOnMade /\ [Next]_vars => (\A j \in Instances : globalSecret[j] # NoSecret => globalSecret'[j] # NoSecret)
<1> SUFFICES ASSUME TypeOK, WorksOnMade, [Next]_vars PROVE (\A j \in Instances : globalSecret[j] # NoSecret => globalSecret'[j] # NoSecret)
  OBVIOUS
<1> USE CredentialsAssumption DEF Goto, Leaves, Returns, Copies, secrets, thread, TypeOK, Key, Fetched, NoSecret
<1>1. CASE UNCHANGED vars
  BY <1>1 DEF vars
<1>2. CASE Tick
  BY <1>2 DEF Tick
<1>3. ASSUME NEW t \in Threads, NEW i \in Instances, Construct(t, i) PROVE (\A j \in Instances : globalSecret[j] # NoSecret => globalSecret'[j] # NoSecret)
  BY <1>3 DEF Construct
<1>4. ASSUME NEW t \in Threads, NEW i \in Instances, NEW place \in {"init", "getSecret"},
             Call(t, i, place)
      PROVE  (\A j \in Instances : globalSecret[j] # NoSecret => globalSecret'[j] # NoSecret)
  BY <1>4 DEF Call
<1>5. ASSUME NEW t \in Threads, Step(t) PROVE (\A j \in Instances : globalSecret[j] # NoSecret => globalSecret'[j] # NoSecret)
  <2>1. CASE InitSecret(t)
    BY <2>1 DEF InitSecret
  <2>2. CASE LockFound(t)
    BY <2>2 DEF LockFound
  <2>3. CASE LockFetches(t)
    BY <2>3 DEF LockFetches
  <2>4. CASE LockFails(t)
    BY <2>4 DEF LockFails
  <2>5. CASE Download(t)
    BY <2>5 DEF Download
  <2>6. CASE DownloadRefused(t)
    BY <2>6 DEF DownloadRefused
  <2>7. CASE DownloadThrows(t)
    BY <2>7 DEF DownloadThrows
  <2>8. CASE DownloadNamesNobody(t)
    BY <2>8 DEF DownloadNamesNobody
  <2>9. CASE Downloaded(t)
    BY <2>9 DEF Downloaded
  <2>10. CASE TrySession(t)
    BY <2>10 DEF TrySession
  <2>11. CASE SessionCrashes(t)
    BY <2>11 DEF SessionCrashes
  <2>12. CASE GetSecret(t)
    BY <2>12 DEF GetSecret
  <2>13. CASE Build(t)
    BY <2>13 DEF Build
  <2> QED BY <1>5, <2>1, <2>2, <2>3, <2>4, <2>5, <2>6, <2>7, <2>8, <2>9, <2>10, <2>11,
             <2>12, <2>13 DEF Step
<1> QED BY <1>1, <1>2, <1>3, <1>4, <1>5 DEF Next

\* WorksOnMade: an instance is not unmade, and a call is made on one that is.
LEMMA WorksOnMadeStep == TypeOK /\ WorksOnMade /\ [Next]_vars => WorksOnMade'
<1> SUFFICES ASSUME TypeOK, WorksOnMade, [Next]_vars PROVE WorksOnMade'
  OBVIOUS
<1> USE CredentialsAssumption DEF Goto, Leaves, Returns, Copies, secrets, thread, TypeOK, WorksOnMade, Constructed
<1>0. \A j \in Instances : globalSecret[j] # NoSecret => globalSecret'[j] # NoSecret
  BY SecretsStay DEF WorksOnMade
<1>1. CASE UNCHANGED vars
  BY <1>1 DEF vars
<1>2. CASE Tick
  BY <1>2 DEF Tick
<1>3. ASSUME NEW t \in Threads, NEW i \in Instances, Construct(t, i) PROVE WorksOnMade'
  BY <1>3 DEF Construct
<1>4. ASSUME NEW t \in Threads, NEW i \in Instances, NEW place \in {"init", "getSecret"},
             Call(t, i, place)
      PROVE  WorksOnMade'
  BY <1>4 DEF Call
<1>5. ASSUME NEW t \in Threads, Step(t) PROVE WorksOnMade'
  <2>1. CASE InitSecret(t)
    BY <2>1 DEF InitSecret
  <2>2. CASE LockFound(t)
    BY <2>2 DEF LockFound
  <2>3. CASE LockFetches(t)
    BY <2>3 DEF LockFetches
  <2>4. CASE LockFails(t)
    BY <2>4 DEF LockFails
  <2>5. CASE Download(t)
    BY <1>0, <2>5 DEF Download
  <2>6. CASE DownloadRefused(t)
    BY <2>6 DEF DownloadRefused
  <2>7. CASE DownloadThrows(t)
    BY <2>7 DEF DownloadThrows
  <2>8. CASE DownloadNamesNobody(t)
    BY <2>8 DEF DownloadNamesNobody
  <2>9. CASE Downloaded(t)
    BY <2>9 DEF Downloaded
  <2>10. CASE TrySession(t)
    BY <2>10 DEF TrySession
  <2>11. CASE SessionCrashes(t)
    BY <2>11 DEF SessionCrashes
  <2>12. CASE GetSecret(t)
    BY <2>12 DEF GetSecret
  <2>13. CASE Build(t)
    BY <2>13 DEF Build
  <2> QED BY <1>5, <2>1, <2>2, <2>3, <2>4, <2>5, <2>6, <2>7, <2>8, <2>9, <2>10, <2>11,
             <2>12, <2>13 DEF Step
<1> QED BY <1>1, <1>2, <1>3, <1>4, <1>5 DEF Next

\* FetchesAlone: only its holder gives a mutex back, and only a fetch replaces a secret.
LEMMA FetchesAloneStep == TypeOK /\ WorksOnMade /\ FetchesAlone /\ [Next]_vars => FetchesAlone'
<1> SUFFICES ASSUME TypeOK, WorksOnMade, FetchesAlone, [Next]_vars PROVE FetchesAlone'
  OBVIOUS
<1> USE CredentialsAssumption DEF Goto, Leaves, Returns, Copies, secrets, thread, TypeOK, WorksOnMade, FetchesAlone, Constructed, Lasts, NeedsKeys, NeedsSession
<1>0. \A j \in Instances : globalSecret[j].expiration \in Int
  BY DEF Secret, NoSecret
<1>1. CASE UNCHANGED vars
  BY <1>1 DEF vars
<1>2. CASE Tick
  BY <1>0, <1>2 DEF Tick
<1>3. ASSUME NEW t \in Threads, NEW i \in Instances, Construct(t, i) PROVE FetchesAlone'
  BY <1>3 DEF Construct
<1>4. ASSUME NEW t \in Threads, NEW i \in Instances, NEW place \in {"init", "getSecret"},
             Call(t, i, place)
      PROVE  FetchesAlone'
  BY <1>4 DEF Call
<1>5. ASSUME NEW t \in Threads, Step(t) PROVE FetchesAlone'
  <2>1. CASE InitSecret(t)
    BY <2>1 DEF InitSecret
  <2>2. CASE LockFound(t)
    BY <2>2 DEF LockFound
  <2>3. CASE LockFetches(t)
    BY <2>3 DEF LockFetches
  <2>4. CASE LockFails(t)
    BY <2>4 DEF LockFails
  <2>5. CASE Download(t)
    BY <2>5 DEF Download
  <2>6. CASE DownloadRefused(t)
    BY <2>6 DEF DownloadRefused
  <2>7. CASE DownloadThrows(t)
    BY <2>7 DEF DownloadThrows
  <2>8. CASE DownloadNamesNobody(t)
    BY <2>8 DEF DownloadNamesNobody
  <2>9. CASE Downloaded(t)
    BY <2>9 DEF Downloaded
  <2>10. CASE TrySession(t)
    BY <2>10 DEF TrySession
  <2>11. CASE SessionCrashes(t)
    BY <2>11 DEF SessionCrashes
  <2>12. CASE GetSecret(t)
    BY <2>12 DEF GetSecret
  <2>13. CASE Build(t)
    BY <2>13 DEF Build
  <2> QED BY <1>5, <2>1, <2>2, <2>3, <2>4, <2>5, <2>6, <2>7, <2>8, <2>9, <2>10, <2>11,
             <2>12, <2>13 DEF Step
<1> QED BY <1>1, <1>2, <1>3, <1>4, <1>5 DEF Next

\* OthersKeepKeys: a secret that expires comes from a fetch, for an instance of Amazon.
LEMMA OthersKeepKeysStep == TypeOK /\ WorksOnMade /\ FetchesAlone /\ OthersKeepKeys /\ [Next]_vars => OthersKeepKeys'
<1> SUFFICES ASSUME TypeOK, WorksOnMade, FetchesAlone, OthersKeepKeys, [Next]_vars PROVE OthersKeepKeys'
  OBVIOUS
<1> USE CredentialsAssumption DEF Goto, Leaves, Returns, Copies, secrets, thread, TypeOK, WorksOnMade, FetchesAlone, OthersKeepKeys, Key, Fetched
<1>1. CASE UNCHANGED vars
  BY <1>1 DEF vars
<1>2. CASE Tick
  BY <1>2 DEF Tick
<1>3. ASSUME NEW t \in Threads, NEW i \in Instances, Construct(t, i) PROVE OthersKeepKeys'
  BY <1>3 DEF Construct
<1>4. ASSUME NEW t \in Threads, NEW i \in Instances, NEW place \in {"init", "getSecret"},
             Call(t, i, place)
      PROVE  OthersKeepKeys'
  BY <1>4 DEF Call
<1>5. ASSUME NEW t \in Threads, Step(t) PROVE OthersKeepKeys'
  <2>1. CASE InitSecret(t)
    BY <2>1 DEF InitSecret
  <2>2. CASE LockFound(t)
    BY <2>2 DEF LockFound
  <2>3. CASE LockFetches(t)
    BY <2>3 DEF LockFetches
  <2>4. CASE LockFails(t)
    BY <2>4 DEF LockFails
  <2>5. CASE Download(t)
    BY <2>5 DEF Download
  <2>6. CASE DownloadRefused(t)
    BY <2>6 DEF DownloadRefused
  <2>7. CASE DownloadThrows(t)
    BY <2>7 DEF DownloadThrows
  <2>8. CASE DownloadNamesNobody(t)
    BY <2>8 DEF DownloadNamesNobody
  <2>9. CASE Downloaded(t)
    BY <2>9 DEF Downloaded
  <2>10. CASE TrySession(t)
    BY <2>10 DEF TrySession
  <2>11. CASE SessionCrashes(t)
    BY <2>11 DEF SessionCrashes
  <2>12. CASE GetSecret(t)
    BY <2>12 DEF GetSecret
  <2>13. CASE Build(t)
    BY <2>13 DEF Build
  <2> QED BY <1>5, <2>1, <2>2, <2>3, <2>4, <2>5, <2>6, <2>7, <2>8, <2>9, <2>10, <2>11,
             <2>12, <2>13 DEF Step
<1> QED BY <1>1, <1>2, <1>3, <1>4, <1>5 DEF Next

\* ReturnedWithKeys: keys that last are kept until the request is built.
LEMMA ReturnedWithKeysStep == TypeOK /\ WorksOnMade /\ FetchesAlone /\ OthersKeepKeys /\ ReturnedWithKeys /\ [Next]_vars => ReturnedWithKeys'
<1> SUFFICES ASSUME TypeOK, WorksOnMade, FetchesAlone, OthersKeepKeys, ReturnedWithKeys, [Next]_vars PROVE ReturnedWithKeys'
  OBVIOUS
<1> USE CredentialsAssumption DEF Goto, Leaves, Returns, Copies, secrets, thread, TypeOK, WorksOnMade, FetchesAlone, OthersKeepKeys, ReturnedWithKeys, Constructed, Lasts, validKeys
<1>0. /\ \A j \in Instances : globalSecret[j].expiration \in Int
     /\ \A u \in Threads : secret[u].expiration \in Int
  BY DEF Secret, NoSecret
<1>1. CASE UNCHANGED vars
  BY <1>1 DEF vars
<1>2. CASE Tick
  BY <1>2 DEF Tick
<1>3. ASSUME NEW t \in Threads, NEW i \in Instances, Construct(t, i) PROVE ReturnedWithKeys'
  BY <1>3 DEF Construct
<1>4. ASSUME NEW t \in Threads, NEW i \in Instances, NEW place \in {"init", "getSecret"},
             Call(t, i, place)
      PROVE  ReturnedWithKeys'
  BY <1>4 DEF Call
<1>5. ASSUME NEW t \in Threads, Step(t) PROVE ReturnedWithKeys'
  <2>1. CASE InitSecret(t)
    BY <1>0, <2>1 DEF InitSecret, NeedsKeys
  <2>2. CASE LockFound(t)
    BY <1>0, <2>2 DEF LockFound
  <2>3. CASE LockFetches(t)
    BY <2>3 DEF LockFetches
  <2>4. CASE LockFails(t)
    BY <2>4 DEF LockFails
  <2>5. CASE Download(t)
    BY <2>5 DEF Download
  <2>6. CASE DownloadRefused(t)
    BY <2>6 DEF DownloadRefused
  <2>7. CASE DownloadThrows(t)
    BY <2>7 DEF DownloadThrows
  <2>8. CASE DownloadNamesNobody(t)
    BY <2>8 DEF DownloadNamesNobody
  <2>9. CASE Downloaded(t)
    BY <2>9 DEF Downloaded
  <2>10. CASE TrySession(t)
    BY <1>0, <2>10 DEF TrySession
  <2>11. CASE SessionCrashes(t)
    BY <2>11 DEF SessionCrashes
  <2>12. CASE GetSecret(t)
    BY <2>12 DEF GetSecret
  <2>13. CASE Build(t)
    BY <2>13 DEF Build
  <2> QED BY <1>5, <2>1, <2>2, <2>3, <2>4, <2>5, <2>6, <2>7, <2>8, <2>9, <2>10, <2>11,
             <2>12, <2>13 DEF Step
<1> QED BY <1>1, <1>2, <1>3, <1>4, <1>5 DEF Next

\* Inv holds at the start.
LEMMA InitInv == Init => Inv
<1> SUFFICES ASSUME Init PROVE Inv
  OBVIOUS
<1> USE CredentialsAssumption DEF Init
<1>1. TypeOK
  <2>1. now \in 0 .. MaxTime /\ refusals \in 0 .. MaxRefusals
    OBVIOUS
  <2>2. abandoned \in SUBSET Instances /\ crashed \in BOOLEAN
    OBVIOUS
  <2>3. /\ globalSecret \in [Instances -> Secret \cup {NoSecret}]
        /\ secret \in [Threads -> Secret \cup {NoSecret}]
    OBVIOUS
  <2>4. pc \in [Threads -> Places]
    BY DEF Places
  <2>5. verified \in [Threads -> BOOLEAN]
    OBVIOUS
  <2>6. /\ mutex \in [Instances -> Threads \cup {NoOne}]
        /\ validInstance \in [Threads -> Instances \cup {NoOne}]
        /\ instance \in [Threads -> Instances \cup {NoOne}]
    OBVIOUS
  <2> QED BY <2>1, <2>2, <2>3, <2>4, <2>5, <2>6 DEF TypeOK
<1>2. WorksOnMade /\ FetchesAlone /\ ReturnedWithKeys
  BY DEF WorksOnMade, FetchesAlone, ReturnedWithKeys
<1>3. OthersKeepKeys
  BY DEF OthersKeepKeys, NoSecret
<1> QED BY <1>1, <1>2, <1>3 DEF Inv

\* Every step keeps it.
LEMMA NextInv == Inv /\ [Next]_vars => Inv'
BY TypeStep, WorksOnMadeStep, FetchesAloneStep, OthersKeepKeysStep, ReturnedWithKeysStep DEF Inv

\* Of the threads that call initSecret (aws.cpp:233) one at a time fetches a secret,
\* with the mutex and because it is due, and each returns with valid keys.
THEOREM CredentialsInvariant == Spec => []Inv
<1>1. Init => Inv
  BY InitInv
<1>2. Inv /\ [Next]_vars => Inv'
  BY NextInv
<1> QED BY <1>1, <1>2, PTL DEF Spec

\* Inv says of a request that is built what VerifiedIsValid does: keys the instance
\* was made with do not expire.
LEMMA InvVerified == Inv => VerifiedIsValid
<1> SUFFICES ASSUME Inv, NEW t \in Threads, pc[t] = "build", verified[t],
                    instance[t] \in Amazon \cup Explicit
             PROVE  validInstance[t] = instance[t] /\ Lasts(secret[t], 1)
  BY DEF VerifiedIsValid
<1>1. CASE instance[t] \in Amazon
  BY <1>1 DEF Inv, ReturnedWithKeys
<1>2. CASE instance[t] \in Explicit \ Amazon
  <2>1. instance[t] \in Instances /\ globalSecret[instance[t]] # NoSecret
    BY <1>2 DEF Inv, WorksOnMade, Constructed
  <2>2. validInstance[t] = instance[t] /\ secret[t] # NoSecret
    BY <2>1 DEF Inv, ReturnedWithKeys
  <2>3. secret[t].key # "IAM"
    BY <1>2, <2>1, <2>2 DEF Inv, OthersKeepKeys
  <2> QED BY <2>2, <2>3 DEF Lasts
<1> QED BY <1>1, <1>2

\* After initSecret a request of the same minute has valid keys.
THEOREM VerifiedRequestsAreValid == Spec => []VerifiedIsValid
<1>1. Inv => VerifiedIsValid
  BY InvVerified
<1> QED BY <1>1, CredentialsInvariant, PTL

\* Only a fetch, and the constructor of an instance without a secret, write it.
LEMMA StepReplaces ==
  Inv /\ [Next]_vars =>
    \A i \in Instances :
      globalSecret'[i] # globalSecret[i] => ~ Lasts(globalSecret[i], 3)
<1> SUFFICES ASSUME Inv, [Next]_vars, NEW i \in Instances,
                    globalSecret'[i] # globalSecret[i]
             PROVE  ~ Lasts(globalSecret[i], 3)
  OBVIOUS
<1> USE DEF Inv, TypeOK
<1>1. CASE UNCHANGED vars \/ Tick
  BY <1>1 DEF vars, Tick
<1>2. ASSUME NEW t \in Threads, NEW j \in Instances,
             Construct(t, j) \/ (\E place \in {"init", "getSecret"} : Call(t, j, place))
      PROVE  ~ Lasts(globalSecret[i], 3)
  BY <1>2 DEF Construct, Call, Constructed, Lasts
<1>3. ASSUME NEW t \in Threads, Step(t) PROVE ~ Lasts(globalSecret[i], 3)
  <2>1. Download(t)
    BY <1>3 DEF Step, InitSecret, LockFound, LockFetches, LockFails, DownloadRefused,
                DownloadThrows, DownloadNamesNobody, Downloaded, TrySession,
                SessionCrashes, GetSecret, Build
  <2>2. pc[t] = "download" /\ i = instance[t]
    BY <2>1 DEF Download, Goto
  <2> QED BY <2>2 DEF FetchesAlone
<1> QED BY <1>1, <1>2, <1>3 DEF Next

\* A secret that will still do is never replaced (the second look behind try_lock).
THEOREM SecretsReplacedWhenDue == Spec => ReplacedWhenDue
<1>1. Inv /\ [Next]_vars =>
        [\A i \in Instances :
           globalSecret'[i] # globalSecret[i] => ~ Lasts(globalSecret[i], 3)]_vars
  BY StepReplaces
<1> QED BY <1>1, CredentialsInvariant, PTL DEF Spec, ReplacedWhenDue

=============================================================================

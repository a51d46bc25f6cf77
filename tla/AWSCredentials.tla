---------------------------- MODULE AWSCredentials ----------------------------
(***************************************************************************)
(* The secrets of cloud::AWS (include/cloud/aws.hpp, src/cloud/aws.cpp)    *)
(* and how requests come by them (verifyKeyRequest and the request         *)
(* functions of include/network/transaction.hpp).                          *)
(*                                                                         *)
(* Every instance keeps a global secret under a mutex; every thread keeps  *)
(* one local secret and the instance it is valid for, both thread_local    *)
(* and shared by all instances.  initSecret fetches a secret from the      *)
(* metadata service of the machine, getSecret copies the global one, and a *)
(* request is built from the local one, or is null when that is not valid. *)
(*                                                                         *)
(* Time is counted in minutes, the granularity of the code's offsets.  The *)
(* session secrets of zonal buckets are never set: initSecret asks whether *)
(* the keys are valid where it means the session (aws.cpp:277), and where  *)
(* they are not, the request for a session dereferences the session that   *)
(* is not there (aws.cpp:361).                                             *)
(***************************************************************************)
EXTENDS Integers

CONSTANTS
  Threads,     \* the threads of users and receivers
  Instances,   \* the objects of class AWS and of those that inherit from it
  Amazon,      \* those of type CloudService::AWS: they fetch their secrets
  Explicit,    \* those made with a key
  Zonal,       \* those of a zonal bucket
  NoOne,       \* no thread, no instance, no secret
  Lifetimes,   \* external: how long a secret of the metadata service is valid
  MaxTime,     \* bound: the clock
  MaxRefusals  \* bound: how often the metadata service has no secret

ASSUME CredentialsAssumption ==
  /\ {Amazon, Explicit, Zonal} \subseteq SUBSET Instances
  /\ NoOne \notin Threads \cup Instances
  /\ Lifetimes \subseteq Nat
  /\ {MaxTime, MaxRefusals} \subseteq Nat

VARIABLES
  now,            \* system_clock::now
  globalSecret,   \* _globalSecret of each instance
  mutex,          \* _mutex of each instance: the thread that has it
  secret,         \* _secret of each thread
  validInstance,  \* _validInstance of each thread
  pc,             \* where a thread is
  instance,       \* the instance it works on
  verified,       \* initSecret has returned to it within this minute
  refusals,       \* how often the metadata service had no secret
  abandoned,      \* the instances whose mutex an exception has left locked
  crashed         \* a null pointer was followed: the process has ended

secrets == <<secret, validInstance>>
thread == <<pc, instance>>
vars == <<now, globalSecret, mutex, secrets, thread, verified, refusals, abandoned, crashed>>

Fetched(e) == [key |-> "IAM", of |-> NoOne, expiration |-> e]
Key(i) == [key |-> "explicit", of |-> i, expiration |-> 0]

Secret ==
  [key : {"IAM", "explicit"}, of : Instances \cup {NoOne}, expiration : Nat]
NoSecret == [key |-> "none", of |-> NoOne, expiration |-> 0]

\* Only a secret with a token expires.
Lasts(s, offset) ==
  /\ s # NoSecret
  /\ s.key = "IAM" => s.expiration - offset >= now

validKeys(t, i, offset) == validInstance[t] = i /\ Lasts(secret[t], offset)

\* An instance made with a key gets it when it is constructed; the others fetch it.
Init ==
  /\ now = 0
  /\ globalSecret = [i \in Instances |-> NoSecret]
  /\ mutex = [i \in Instances |-> NoOne]
  /\ secret = [t \in Threads |-> NoSecret]
  /\ validInstance = [t \in Threads |-> NoOne]
  /\ pc = [t \in Threads |-> "idle"]
  /\ instance = [t \in Threads |-> NoOne]
  /\ verified = [t \in Threads |-> FALSE]
  /\ refusals = 0
  /\ abandoned = {}
  /\ crashed = FALSE

Constructed(i) == i \in Explicit => globalSecret[i] # NoSecret
Goto(t, from, to) ==
  /\ ~ crashed
  /\ pc[t] = from
  /\ pc' = [pc EXCEPT ![t] = to]
  /\ UNCHANGED instance
Leaves(t, from) ==
  /\ ~ crashed
  /\ pc[t] = from
  /\ pc' = [pc EXCEPT ![t] = "idle"]
  /\ instance' = [instance EXCEPT ![t] = NoOne]
Returns(t) == verified' = [verified EXCEPT ![t] = TRUE]

-----------------------------------------------------------------------------

Tick ==
  /\ ~ crashed
  /\ now < MaxTime
  /\ now' = now + 1
  /\ verified' = [t \in Threads |-> FALSE]
  /\ UNCHANGED <<globalSecret, mutex, secrets, thread, refusals, abandoned, crashed>>

\* The constructor with a key overwrites the secret of the thread it runs on, and
\* leaves the instance that one is valid for.
Construct(t, i) ==
  /\ ~ crashed
  /\ pc[t] = "idle"
  /\ i \in Explicit
  /\ ~ Constructed(i)
  /\ globalSecret' = [globalSecret EXCEPT ![i] = Key(i)]
  /\ secret' = [secret EXCEPT ![t] = Key(i)]
  /\ UNCHANGED <<now, mutex, validInstance, thread, verified, refusals, abandoned, crashed>>

\* verifyKeyRequest goes through initSecret, a request function alone does not: the
\* callbacks of a multipart upload call getSecret on the threads of receivers.
Call(t, i, place) ==
  /\ ~ crashed
  /\ pc[t] = "idle"
  /\ Constructed(i)
  /\ pc' = [pc EXCEPT ![t] = place]
  /\ instance' = [instance EXCEPT ![t] = i]
  /\ UNCHANGED <<now, globalSecret, mutex, secrets, verified, refusals, abandoned, crashed>>

-----------------------------------------------------------------------------
(* initSecret. *)

NeedsKeys(t) == instance[t] \in Amazon /\ ~ validKeys(t, instance[t], 3)
NeedsSession(t) == instance[t] \in Amazon \cap Zonal

InitSecret(t) ==
  /\ pc[t] = "init"
  /\ IF NeedsKeys(t)
       THEN Goto(t, "init", "tryLock") /\ UNCHANGED verified
       ELSE IF NeedsSession(t)
              THEN Goto(t, "init", "trySession") /\ UNCHANGED verified
              ELSE Goto(t, "init", "getSecret") /\ Returns(t)
  /\ UNCHANGED <<now, globalSecret, mutex, secrets, refusals, abandoned, crashed>>

Copies(t, i) ==
  /\ secret' = [secret EXCEPT ![t] = globalSecret[i]]
  /\ validInstance' = [validInstance EXCEPT ![t] = i]

\* Mutant: the mutex is not given back.
LockFoundKept(t) ==
  LET i == instance[t] IN
  /\ Goto(t, "tryLock", "getSecret")
  /\ mutex[i] = NoOne
  /\ Lasts(globalSecret[i], 3)
  /\ Copies(t, i)
  /\ Returns(t)
  /\ mutex' = [mutex EXCEPT ![i] = t]
  /\ UNCHANGED <<now, globalSecret, refusals, abandoned, crashed>>

\* try_lock succeeds, and another thread has fetched a secret meanwhile.
LockFound(t) ==
  LET i == instance[t] IN
  /\ Goto(t, "tryLock", "getSecret")
  /\ mutex[i] = NoOne
  /\ Lasts(globalSecret[i], 3)
  /\ Copies(t, i)
  /\ Returns(t)
  /\ UNCHANGED <<now, globalSecret, mutex, refusals, abandoned, crashed>>

\* Mutant: the secret is fetched though another thread has just done so.
LockFetchesAnyway(t) ==
  LET i == instance[t] IN
  /\ Goto(t, "tryLock", "download")
  /\ mutex[i] = NoOne
  /\ Copies(t, i)
  /\ mutex' = [mutex EXCEPT ![i] = t]
  /\ UNCHANGED <<now, globalSecret, verified, refusals, abandoned, crashed>>

\* Mutant: the mutex is not asked for.
LockFetchesUnlocked(t) ==
  LET i == instance[t] IN
  /\ Goto(t, "tryLock", "download")
  /\ ~ Lasts(globalSecret[i], 3)
  /\ Copies(t, i)
  /\ mutex' = [mutex EXCEPT ![i] = t]
  /\ UNCHANGED <<now, globalSecret, verified, refusals, abandoned, crashed>>

\* try_lock succeeds, and the secret has to be fetched.
LockFetches(t) ==
  LET i == instance[t] IN
  /\ Goto(t, "tryLock", "download")
  /\ mutex[i] = NoOne
  /\ ~ Lasts(globalSecret[i], 3)
  /\ Copies(t, i)
  /\ mutex' = [mutex EXCEPT ![i] = t]
  /\ UNCHANGED <<now, globalSecret, verified, refusals, abandoned, crashed>>

\* The loop tries again as long as the thread's own secret will not do.
LockFails(t) ==
  LET i == instance[t] IN
  /\ Goto(t, "tryLock", "getSecret")
  /\ mutex[i] # NoOne
  /\ validKeys(t, i, 1)
  /\ Returns(t)
  /\ UNCHANGED <<now, globalSecret, mutex, secrets, refusals, abandoned, crashed>>

\* Both answers came, and updateSecret could read the second.
Download(t) ==
  LET i == instance[t] IN
  /\ Goto(t, "download", "downloaded")
  /\ \E l \in Lifetimes :
       /\ globalSecret' = [globalSecret EXCEPT ![i] = Fetched(now + l)]
       /\ secret' = [secret EXCEPT ![t] = Fetched(now + l)]
  /\ validInstance' = [validInstance EXCEPT ![t] = i]
  /\ mutex' = [mutex EXCEPT ![i] = NoOne]
  /\ UNCHANGED <<now, verified, refusals, abandoned, crashed>>

\* updateSecret could not read the answer.
DownloadRefused(t) ==
  LET i == instance[t] IN
  /\ Goto(t, "download", "downloaded")
  /\ refusals < MaxRefusals
  /\ refusals' = refusals + 1
  /\ mutex' = [mutex EXCEPT ![i] = NoOne]
  /\ UNCHANGED <<now, globalSecret, secrets, verified, abandoned, crashed>>

\* verify or a parser throws: the mutex stays locked.
DownloadThrows(t) ==
  /\ Leaves(t, "download")
  /\ refusals < MaxRefusals
  /\ refusals' = refusals + 1
  /\ abandoned' = abandoned \cup {instance[t]}
  /\ UNCHANGED <<now, globalSecret, mutex, secrets, verified, crashed>>

\* The first answer is empty: the second message is null.
DownloadNamesNobody(t) ==
  /\ Leaves(t, "download")
  /\ refusals < MaxRefusals
  /\ refusals' = refusals + 1
  /\ crashed' = TRUE
  /\ UNCHANGED <<now, globalSecret, mutex, secrets, verified, abandoned>>

Downloaded(t) ==
  /\ pc[t] = "downloaded"
  /\ IF validKeys(t, instance[t], 1)
       THEN Goto(t, "downloaded", "getSecret") /\ Returns(t)
       ELSE Goto(t, "downloaded", "tryLock") /\ UNCHANGED verified
  /\ UNCHANGED <<now, globalSecret, mutex, secrets, refusals, abandoned, crashed>>

\* The session of a zonal bucket: there is none to copy.  With valid keys initSecret
\* returns without one, without them the process ends.
TrySession(t) ==
  LET i == instance[t] IN
  /\ Goto(t, "trySession", "getSecret")
  /\ mutex[i] = NoOne
  /\ validInstance' = [validInstance EXCEPT ![t] = i]
  /\ Lasts(secret[t], 3)
  /\ Returns(t)
  /\ UNCHANGED <<now, globalSecret, mutex, secret, refusals, abandoned, crashed>>

SessionCrashes(t) ==
  LET i == instance[t] IN
  /\ Leaves(t, "trySession")
  /\ mutex[i] = NoOne
  /\ ~ Lasts(secret[t], 3)
  /\ mutex' = [mutex EXCEPT ![i] = t]
  /\ crashed' = TRUE
  /\ UNCHANGED <<now, globalSecret, secrets, verified, refusals, abandoned>>

-----------------------------------------------------------------------------
(* getSecret, and the request. *)

\* Mutant: the instance the copy is valid for is not noted.
GetSecretUnmarked(t) ==
  LET i == instance[t] IN
  /\ Goto(t, "getSecret", "build")
  /\ IF secret[t] = NoSecret \/ validInstance[t] # i
       THEN mutex[i] = NoOne /\ secret' = [secret EXCEPT ![t] = globalSecret[i]]
       ELSE /\ NeedsSession(t) => mutex[i] = NoOne
            /\ UNCHANGED secret
  /\ UNCHANGED <<now, globalSecret, mutex, validInstance, verified, refusals, abandoned, crashed>>

\* The second part of getSecret, for the session, copies null.
GetSecret(t) ==
  LET i == instance[t] IN
  /\ Goto(t, "getSecret", "build")
  /\ IF secret[t] = NoSecret \/ validInstance[t] # i
       THEN mutex[i] = NoOne /\ Copies(t, i)
       ELSE /\ NeedsSession(t) => mutex[i] = NoOne
            /\ UNCHANGED secrets
  /\ UNCHANGED <<now, globalSecret, mutex, verified, refusals, abandoned, crashed>>

Build(t) ==
  /\ Leaves(t, "build")
  /\ verified' = [verified EXCEPT ![t] = FALSE]
  /\ UNCHANGED <<now, globalSecret, mutex, secrets, refusals, abandoned, crashed>>

Step(t) ==
  \/ InitSecret(t)
  \/ LockFound(t)
  \/ LockFetches(t)
  \/ LockFails(t)
  \/ Download(t)
  \/ DownloadRefused(t)
  \/ DownloadThrows(t)
  \/ DownloadNamesNobody(t)
  \/ Downloaded(t)
  \/ TrySession(t)
  \/ SessionCrashes(t)
  \/ GetSecret(t)
  \/ Build(t)

Next ==
  \/ Tick
  \/ \E t \in Threads :
       \/ \E i \in Instances :
            \/ Construct(t, i)
            \/ \E place \in {"init", "getSecret"} : Call(t, i, place)
       \/ Step(t)

Spec == Init /\ [][Next]_vars

\* A thread runs on, and messages to the metadata service end; nobody is obliged to
\* ask for anything.
FairSpec == Spec /\ \A t \in Threads : WF_vars(Step(t))

-----------------------------------------------------------------------------

Places == {"idle", "init", "tryLock", "download", "downloaded", "trySession",
           "getSecret", "build"}

TypeOK ==
  /\ now \in 0 .. MaxTime
  /\ globalSecret \in [Instances -> Secret \cup {NoSecret}]
  /\ mutex \in [Instances -> Threads \cup {NoOne}]
  /\ secret \in [Threads -> Secret \cup {NoSecret}]
  /\ validInstance \in [Threads -> Instances \cup {NoOne}]
  /\ pc \in [Threads -> Places]
  /\ instance \in [Threads -> Instances \cup {NoOne}]
  /\ verified \in [Threads -> BOOLEAN]
  /\ refusals \in 0 .. MaxRefusals
  /\ abandoned \in SUBSET Instances
  /\ crashed \in BOOLEAN

\* A thread works on an instance that has been made.
WorksOnMade ==
  \A t \in Threads :
    pc[t] # "idle" => instance[t] \in Instances /\ Constructed(instance[t])

\* A secret is fetched by one thread at a time, which has the mutex and has seen that
\* it is due, and for instances of type AWS alone.
FetchesAlone ==
  \A t \in Threads :
    /\ pc[t] \in {"tryLock", "download", "downloaded", "trySession"} => instance[t] \in Amazon
    /\ pc[t] = "download" =>
         mutex[instance[t]] = t /\ ~ Lasts(globalSecret[instance[t]], 3)

\* Of the secrets that expire none is that of another type of instance.
OthersKeepKeys ==
  /\ \A i \in Instances \ Amazon : globalSecret[i].key # "IAM"
  /\ \A t \in Threads : validInstance[t] \in Instances \ Amazon => secret[t].key # "IAM"

\* initSecret has returned with the thread's keys valid for this minute.
ReturnedWithKeys ==
  \A t \in Threads : verified[t] =>
    /\ pc[t] \in {"getSecret", "build"}
    /\ instance[t] \in Amazon => validInstance[t] = instance[t] /\ Lasts(secret[t], 1)
    /\ pc[t] = "build" => validInstance[t] = instance[t] /\ (secret[t] = NoSecret
                            => globalSecret[instance[t]] = NoSecret)

\* The inductive invariant: with it a fetch is exclusive and due, and initSecret
\* returns with keys.
Inv == TypeOK /\ WorksOnMade /\ FetchesAlone /\ OthersKeepKeys /\ ReturnedWithKeys

\* A secret is replaced only when it is due: of the threads that find it expiring at
\* the same time one fetches a new one, and the others see that it has (the second
\* look behind try_lock, aws.cpp:241).
ReplacedWhenDue ==
  [][\A i \in Instances :
       globalSecret'[i] # globalSecret[i] => ~ Lasts(globalSecret[i], 3)]_vars

\* "This is needed to ensure valid keys before a message is requested"
\* (transaction.hpp:111): whichever way initSecret returned, the request built in the
\* same minute has valid keys, unless the instance has none to fetch.
VerifiedIsValid ==
  \A t \in Threads :
    pc[t] = "build" /\ verified[t] /\ instance[t] \in Amazon \cup Explicit
      => validInstance[t] = instance[t] /\ Lasts(secret[t], 1)

\* initSecret and getSecret end, unless an exception has left a mutex locked.
VerifyReturns ==
  \A t \in Threads : pc[t] # "idle" ~> (pc[t] = "idle" \/ abandoned # {} \/ crashed)

=============================================================================

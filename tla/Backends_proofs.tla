----------------------------- MODULE Backends_proofs -----------------------------
(***************************************************************************)
(* Proofs about what is around the worker: the calls of providers, the     *)
(* credentials and custom providers a backend is found in, the limiter,    *)
(* and the requests for grids; for every number of requests and tasks.     *)
(***************************************************************************)
EXTENDS ProviderCalls, CredentialStore, CustomProviders, RateLimiter, GridRequests,
        Numbers_proofs

-------------------------------------------------------------------------------
(* Calls of providers.                                                       *)

CallPc == {"away", "trying", "sending", "polling", "fetching", "saving", "answered",
           "failing", "recording", "done", "raised", "cancelled"}

CallType ==
  [backend : Backends, pictures : {"there", "missing"}, wants : {"plain", "native", "other"},
   form : {"plain", "native", "other"}, pc : CallPc, tried : Nat, polls : Nat, again : Nat,
   over : Nat, written : BOOLEAN]

CallTypeOK ==
  /\ call \in CallType
  /\ row \in [status : {"none", "pending", "success", "failed"}, refused : BOOLEAN]
  /\ provider \in [jobs : Nat, unheard : Nat, requests : Nat, tokens : Nat]

\* What the limits and the retries of the backends have in common: one that is
\* paced never makes a second request in a try, and only a text is its answer.
LEMMA BackendFacts ==
  \A b \in Backends :
    /\ b.paced => b.repeats = {}
    /\ b.fetch.how \in {"apart", "within", "answer"}
    /\ b.fetch.how = "answer" => b.medium = "text"
    /\ b.paced \in BOOLEAN /\ b.polled \in BOOLEAN
    /\ b.polled => b.fetch.how = "apart"
<1>. SUFFICES ASSUME NEW b \in Backends
              PROVE  /\ b.paced => b.repeats = {}
                     /\ b.fetch.how \in {"apart", "within", "answer"}
                     /\ b.fetch.how = "answer" => b.medium = "text"
                     /\ b.paced \in BOOLEAN /\ b.polled \in BOOLEAN
                     /\ b.polled => b.fetch.how = "apart"
  OBVIOUS
<1>1. CASE b = GeminiVideo BY <1>1 DEF GeminiVideo, Backend, Apart, Fetch
<1>2. CASE b = ArkVideo BY <1>2 DEF ArkVideo, Backend, Apart, Fetch
<1>3. CASE b = OpenAIVideo BY <1>3 DEF OpenAIVideo, Backend, Apart, Fetch
<1>4. CASE b = NewAPIVideo BY <1>4 DEF NewAPIVideo, Backend, Apart, Fetch
<1>5. CASE b = GrokVideo BY <1>5 DEF GrokVideo, Backend, Apart, Fetch
<1>6. CASE b = GeminiImage BY <1>6 DEF GeminiImage, Backend, Within, Fetch
<1>7. CASE b = OpenAIImage BY <1>7 DEF OpenAIImage, Backend, Within, Fetch
<1>8. CASE b = ArkImage BY <1>8 DEF ArkImage, Backend, Within, Fetch
<1>9. CASE b = GrokImage BY <1>9 DEF GrokImage, Backend, Within, Fetch
<1>10. CASE b = GeminiText BY <1>10 DEF GeminiText, Backend, Answer, Fetch
<1>11. CASE b = OpenAIText BY <1>11 DEF OpenAIText, Backend, Answer, Fetch
<1>12. CASE b = ArkText BY <1>12 DEF ArkText, Backend, Answer, Fetch
<1>13. CASE b = GrokText BY <1>13 DEF GrokText, Backend, Answer, Fetch
<1>. QED BY <1>1, <1>2, <1>3, <1>4, <1>5, <1>6, <1>7, <1>8, <1>9, <1>10, <1>11, <1>12, <1>13 DEF Backends, Custom

\* Why the account is right.  A backend that fetches apart has at most the job
\* of its last try, and none while it still tries; a paced one has a token in
\* hand while it sends; and the row is pending until the call has ended.
CallInv ==
  /\ CallTypeOK
  /\ call.backend.fetch.how = "apart" =>
       /\ ~ At("saving")
       /\ provider.jobs - provider.unheard <=
            IF call.pc \in {"away", "trying", "sending"} THEN 0 ELSE 1
  /\ call.backend.paced =>
       provider.requests + (IF At("sending") THEN 1 ELSE 0) <= provider.tokens
  /\ At("away") => row.status = "none"
  /\ call.pc \in {"trying", "sending", "polling", "fetching", "saving", "answered", "failing"}
       => row.status = "pending"
  /\ At("answered") => call.written \/ call.backend.medium = "text"
  /\ At("recording") => row.status = "success"
  /\ RowTrue

LEMMA InitCall == CallInit => CallInv
<1>. SUFFICES ASSUME CallInit PROVE CallInv
  OBVIOUS
<1>1. CallTypeOK
  <2>1. call \in [backend : Backends, pictures : {"there", "missing"},
                 wants : {"plain", "native", "other"}, form : {"plain"}, pc : {"away"},
                 tried : {1}, polls : {0}, again : {1}, over : {1}, written : {FALSE}]
    BY DEF CallInit
  <2>2. {"plain"} \subseteq {"plain", "native", "other"} /\ {"away"} \subseteq CallPc
        /\ {1} \subseteq Nat /\ {0} \subseteq Nat /\ {FALSE} \subseteq BOOLEAN
    BY DEF CallPc
  <2>3. call \in CallType
    BY <2>1, <2>2 DEF CallType
  <2>. QED BY <2>3 DEF CallInit, CallTypeOK
<1>. QED BY <1>1 DEF CallInit, CallInv, RowTrue, Over, At

LEMMA RequestCounts ==
  ASSUME CallTypeOK, NEW j \in Nat, NEW u \in Nat, Requested(j, u)
  PROVE  /\ provider' \in [jobs : Nat, unheard : Nat, requests : Nat, tokens : Nat]
         /\ provider'.requests = provider.requests + 1 /\ provider'.jobs = provider.jobs + j
         /\ provider'.unheard = provider.unheard + u /\ provider'.tokens = provider.tokens
         /\ At("sending") /\ UNCHANGED row
<1>1. /\ provider.jobs \in Nat /\ provider.unheard \in Nat /\ provider.requests \in Nat
      /\ provider.tokens \in Nat
      /\ provider = [jobs |-> provider.jobs, unheard |-> provider.unheard,
                     requests |-> provider.requests, tokens |-> provider.tokens]
  BY DEF CallTypeOK
<1>2. provider' = [jobs |-> provider.jobs + j, unheard |-> provider.unheard + u,
                   requests |-> provider.requests + 1, tokens |-> provider.tokens]
  <2>1. provider' = [provider EXCEPT !.requests = @ + 1, !.jobs = @ + j, !.unheard = @ + u]
    BY DEF Requested
  <2>. QED BY <2>1, <1>1
<1>. QED BY <1>1, <1>2 DEF Requested

LEMMA CallStep == CallInv /\ [CallNext]_calls => CallInv'
<1>. SUFFICES ASSUME CallInv, [CallNext]_calls PROVE CallInv'
  OBVIOUS
<1>. DEFINE b == call.backend
<1>b. /\ b \in Backends
      /\ b.paced \in BOOLEAN /\ b.polled \in BOOLEAN
      /\ b.paced => b.repeats = {}
      /\ b.fetch.how \in {"apart", "within", "answer"}
      /\ b.fetch.how = "answer" => b.medium = "text"
      /\ b.polled => b.fetch.how = "apart"
  BY BackendFacts DEF CallInv, CallTypeOK, CallType
<1>t. CallTypeOK
  BY DEF CallInv
<1>p. {"away", "trying", "sending", "polling", "fetching", "saving", "answered",
       "failing", "recording", "done", "raised", "cancelled"} = CallPc
  BY DEF CallPc
<1>c. call \in CallType
  BY <1>t DEF CallTypeOK
<1>n. ASSUME NEW n \in Nat, call' = Trying(n)
      PROVE  call' \in CallType /\ call'.backend = b /\ call'.pc = "trying" /\ call'.written = call.written
  BY <1>n, <1>c, <1>p DEF Trying, CallType
<1>w. ASSUME NEW l \in CallPc, call' = Went(l)
      PROVE  call' \in CallType /\ call'.backend = b /\ call'.pc = l /\ call'.written = call.written
  BY <1>w, <1>c DEF Went, CallType
<1>e. ASSUME NEW e, Error(e)
      PROVE  /\ call' \in CallType /\ call'.backend = b /\ call'.written = call.written
             /\ call'.pc \in {"sending", "trying", "failing"}
             /\ call'.pc = "sending" => ~ b.paced
  <2>1. CASE e \in b.repeats /\ call.form = "native"
    <3>1. call' = [call EXCEPT !.pc = "sending", !.form = "other"]
      BY <1>e, <2>1 DEF Error
    <3>. QED BY <2>1, <3>1, <1>b, <1>c, <1>p DEF CallType
  <2>2. CASE ~ (e \in b.repeats /\ call.form = "native")
    <3>1. call' = Trying(call.tried + 1) \/ call' = Went("failing")
      BY <1>e, <2>2 DEF Error
    <3>2. call.tried + 1 \in Nat /\ "failing" \in CallPc
      BY <1>c, <1>p DEF CallType
    <3>. QED BY <3>1, <3>2, <1>n, <1>w
  <2>. QED BY <2>1, <2>2
<1>1. CASE RefuseCall \/ StartCallFails
  BY <1>1, <1>b DEF RefuseCall, StartCallFails, CallInv, CallTypeOK, CallType, CallPc, At, Went, Go, Over, RowTrue
<1>2. CASE StartCall
  BY <1>2, <1>b DEF StartCall, Trying, CallInv, CallTypeOK, CallType, CallPc, At, Over, RowTrue
<1>3. CASE Prepare
  BY <1>3, <1>b DEF Prepare, CallInv, CallTypeOK, CallType, CallPc, At, Went, Over, RowTrue
<1>4. CASE AnswerRequest
  <2>1. /\ CallTypeOK' /\ call'.backend = b /\ call'.written = call.written
        /\ call'.pc \in {"polling", "fetching", "saving", "answered"}
        /\ call'.pc = "saving" => b.fetch.how = "within"
        /\ call'.pc = "answered" => b.fetch.how = "answer"
    <3>. DEFINE next == CASE call.backend.polled -> "polling"
                          [] call.backend.fetch.how = "apart" -> "fetching"
                          [] call.backend.fetch.how = "within" -> "saving"
                          [] call.backend.fetch.how = "answer" -> "answered"
    <3>1. call' = Went(next)
      BY <1>4 DEF AnswerRequest
    <3>2. /\ next \in {"polling", "fetching", "saving", "answered"}
          /\ next = "saving" => b.fetch.how = "within"
          /\ next = "answered" => b.fetch.how = "answer"
      BY <1>b
    <3>. HIDE DEF next
    <3>3. next \in CallPc
      BY <3>2, <1>p
    <3>4. provider' \in [jobs : Nat, unheard : Nat, requests : Nat, tokens : Nat] /\ UNCHANGED row
      BY <1>4, <1>t, RequestCounts DEF AnswerRequest
    <3>. QED BY <3>1, <3>2, <3>3, <3>4, <1>t, <1>w DEF CallTypeOK
  <2>2. /\ At("sending") /\ UNCHANGED row
        /\ provider'.requests = provider.requests + 1 /\ provider'.jobs = provider.jobs + 1
        /\ provider'.unheard = provider.unheard + 0 /\ provider'.tokens = provider.tokens
    BY <1>4, <1>t, RequestCounts DEF AnswerRequest
  <2>. QED BY <2>1, <2>2, <1>b, <1>t DEF CallInv, CallTypeOK, At, Over, RowTrue
<1>5. CASE AnswerLost
  <2>1. PICK e : Error(e)
    BY <1>5 DEF AnswerLost
  <2>2. /\ provider' \in [jobs : Nat, unheard : Nat, requests : Nat, tokens : Nat]
        /\ provider'.requests = provider.requests + 1 /\ provider'.jobs = provider.jobs + 1
        /\ provider'.unheard = provider.unheard + 1 /\ provider'.tokens = provider.tokens
        /\ At("sending") /\ UNCHANGED row
    BY <1>5, <1>t, RequestCounts DEF AnswerLost
  <2>. QED BY <2>1, <2>2, <1>b, <1>e DEF CallInv, CallTypeOK, At, Over, RowTrue
<1>6. CASE Reject
  <2>1. PICK e : Error(e)
    BY <1>6 DEF Reject
  <2>2. /\ provider' \in [jobs : Nat, unheard : Nat, requests : Nat, tokens : Nat]
        /\ provider'.requests = provider.requests + 1 /\ provider'.jobs = provider.jobs + 0
        /\ provider'.unheard = provider.unheard + 0 /\ provider'.tokens = provider.tokens
        /\ At("sending") /\ UNCHANGED row
    BY <1>6, <1>t, RequestCounts DEF Reject
  <2>. QED BY <2>1, <2>2, <1>b, <1>e DEF CallInv, CallTypeOK, At, Over, RowTrue
<1>7. CASE PollAgain \/ PollDone \/ PollFails
  BY <1>7, <1>b DEF PollAgain, PollDone, PollFails, CallInv, CallTypeOK, CallType, CallPc, At, Went, Go, Over, RowTrue
<1>8. ASSUME NEW e, FetchFails(e) PROVE CallInv'
  <2>1. \/ call' = [call EXCEPT !.again = @ + 1] \/ call' = [call EXCEPT !.over = @ + 1, !.again = 1]
        \/ call' = Went("failing")
    BY <1>8 DEF FetchFails, FetchGivenUp
  <2>2. /\ call' \in CallType /\ call'.backend = b /\ call'.written = call.written
        /\ call'.pc \in {call.pc, "failing"}
    <3>1. CASE call' = Went("failing")
      BY <3>1, <1>p, <1>w
    <3>2. CASE call' = [call EXCEPT !.again = @ + 1]
      BY <3>2, <1>c DEF CallType
    <3>3. CASE call' = [call EXCEPT !.over = @ + 1, !.again = 1]
      <4>1. /\ call.over + 1 \in Nat /\ 1 \in Nat
            /\ call' = [[call EXCEPT !.over = call.over + 1] EXCEPT !.again = 1]
        BY <3>3, <1>c DEF CallType
      <4>2. [call EXCEPT !.over = call.over + 1] \in CallType
        BY <4>1, <1>c DEF CallType
      <4>. QED BY <4>1, <4>2, <1>c DEF CallType
    <3>. QED BY <2>1, <3>1, <3>2, <3>3
  <2>3. At("fetching") /\ UNCHANGED << row, provider >>
    BY <1>8 DEF FetchFails
  <2>. QED BY <2>2, <2>3, <1>b DEF CallInv, CallTypeOK, At, Over, RowTrue
<1>9. CASE Fetched \/ Save
  BY ZenonT(50), <1>9, <1>b DEF Fetched, Save, CallInv, CallTypeOK, CallType, CallPc, At, Over, RowTrue
<1>10. CASE SaveFails
  BY <1>10, <1>b, <1>e DEF SaveFails, CallInv, CallTypeOK, CallType, At, Over, RowTrue
<1>11. CASE FinishSuccess
  BY <1>11, <1>b DEF FinishSuccess, CallInv, CallTypeOK, CallType, CallPc, At, Went, Over, RowTrue
<1>12. CASE FinishSuccessFails
  BY <1>12, <1>b DEF FinishSuccessFails, CallInv, CallTypeOK, CallType, CallPc, At, Went, Over, RowTrue
<1>13. CASE FinishFailure
  BY <1>13, <1>b DEF FinishFailure, CallInv, CallTypeOK, CallType, CallPc, At, Went, Over, RowTrue
<1>14. CASE FinishFailureFails
  BY <1>14, <1>b DEF FinishFailureFails, CallInv, CallTypeOK, CallType, CallPc, At, Went, Over, RowTrue
<1>15. CASE Record \/ RecordFails
  BY <1>15, <1>b DEF Record, RecordFails, CallInv, CallTypeOK, CallType, CallPc, At, Went, Go, Over, RowTrue
<1>16. CASE Cancel
  BY <1>16, <1>b DEF Cancel, CallInv, CallTypeOK, CallType, CallPc, At, Went, Go, Over, RowTrue
<1>17. CASE UNCHANGED calls
  BY <1>17 DEF calls, CallInv, CallTypeOK, At, Over, RowTrue
<1>. QED BY <1>1, <1>2, <1>3, <1>4, <1>5, <1>6, <1>7, <1>8, <1>9, <1>10, <1>11, <1>12, <1>13,
            <1>14, <1>15, <1>16, <1>17 DEF CallNext

\* Whatever is repeated of a call, for any deadline: a backend that fetches its
\* result apart pays for one job besides those it never heard of, one that is
\* paced takes a token for each request, and the row says how the call ended.
THEOREM CallsAccountedFor == CallSpec => []CallAccounted
<1>1. CallInv => CallAccounted
  <2>. SUFFICES ASSUME CallInv PROVE CallAccounted
    OBVIOUS
  <2>1. /\ call.backend \in Backends
        /\ provider \in [jobs : Nat, unheard : Nat, requests : Nat, tokens : Nat]
    BY DEF CallInv, CallTypeOK, CallType
  <2>2. OneJob
    BY <2>1 DEF CallInv, OneJob
  <2>3. TokenEach
    BY <2>1 DEF CallInv, TokenEach
  <2>. QED BY <2>2, <2>3 DEF CallInv, CallAccounted
<1>. QED BY <1>1, InitCall, CallStep, PTL DEF CallSpec

-------------------------------------------------------------------------------
(* Credentials.                                                              *)

Row == [active : BOOLEAN, key : Nat, file : BOOLEAN]

ChangeType ==
  [op : {"none", "create", "update", "delete", "activate", "config"},
   pc : {"away", "write", "clear", "unlink", "done"}, id : Nat, active : BOOLEAN, file : BOOLEAN]

CredentialTypeOK ==
  /\ DOMAIN creds \subseteq 1 .. MaxIds + 2
  /\ creds \in [DOMAIN creds -> Row]
  /\ config \in Nat /\ writes \in Nat
  /\ change \in [Change -> ChangeType]
  /\ builder \in [Builder -> [pc : {"idle", "credential", "store"}, config : Nat, key : Nat]]

\* The number a new row gets is no row's.
LEMMA NextIdFresh ==
  ASSUME CredentialTypeOK, NextId <= MaxIds
  PROVE  NextId \notin DOMAIN creds /\ NextId \in 1 .. MaxIds
<1>. DEFINE N == {n \in 1 .. MaxIds : \E id \in DOMAIN creds : id >= n}
            k == Cardinality(N)
<1>1. MaxIds \in Nat
  BY CredentialAssumption
<1>2. IsFiniteSet(N) /\ k \in Nat
  <2>1. IsFiniteSet(1 .. MaxIds)
    BY <1>1, FS_Interval
  <2>2. N \in SUBSET (1 .. MaxIds)
    OBVIOUS
  <2>. QED BY <2>1, <2>2, FS_Subset, FS_CardinalityType
<1>3. NextId = k + 1
  BY <1>2 DEF NextId
<1>4. ASSUME NextId \in DOMAIN creds PROVE FALSE
  <2>1. 1 .. (k + 1) \in SUBSET N
    BY <1>1, <1>2, <1>3, <1>4
  <2>2. Cardinality(1 .. (k + 1)) = k + 1
    BY <1>2, FS_Interval
  <2>3. Cardinality(1 .. (k + 1)) <= k
    BY <2>1, <1>2, FS_Subset
  <2>. QED BY <2>2, <2>3, <1>2
<1>. QED BY <1>1, <1>2, <1>3, <1>4

\* At most one credential is in use, and none only if some request misread.
CredentialInv ==
  /\ CredentialTypeOK
  /\ \A i, j \in InUse : i = j
  /\ DOMAIN creds # {} /\ InUse = {} => misread
  /\ KeyFileThere
  /\ BackendCurrent

LEMMA InitCredentials == CredentialInit => CredentialInv
<1>. SUFFICES ASSUME CredentialInit PROVE CredentialInv
  OBVIOUS
<1>1. PICK n \in 1 .. 2 : creds = [id \in 1 .. n |-> [active |-> id = 1, key |-> id, file |-> TRUE]]
  BY DEF CredentialInit
<1>2. DOMAIN creds = 1 .. n /\ \A id \in 1 .. n : creds[id] \in Row /\ (creds[id].active <=> id = 1)
  <2>1. ASSUME NEW id \in 1 .. n
        PROVE  creds[id] \in Row /\ (creds[id].active <=> id = 1)
    <3>1. creds[id] = [active |-> id = 1, key |-> id, file |-> TRUE] /\ id \in Nat
      BY <1>1
    <3>2. CASE id = 1
      <4>1. creds[id] = [active |-> TRUE, key |-> id, file |-> TRUE]
        BY <3>1, <3>2
      <4>. QED BY <3>1, <3>2, <4>1 DEF Row
    <3>3. CASE id # 1
      <4>1. creds[id] = [active |-> FALSE, key |-> id, file |-> TRUE]
        BY <3>1, <3>3
      <4>. QED BY <3>1, <3>3, <4>1 DEF Row
    <3>. QED BY <3>2, <3>3
  <2>. QED BY <1>1, <2>1
<1>3. CredentialTypeOK
  <2>1. writes \in Nat
    <3>1. writes = Cardinality(DOMAIN creds)
      BY DEF CredentialInit
    <3>2. 1 \in Int /\ n \in Int
      OBVIOUS
    <3>. QED BY <3>1, <3>2, <1>2, FS_Interval
  <2>2. 1 .. n \subseteq 1 .. MaxIds + 2
    BY CredentialAssumption
  <2>3. creds \in [DOMAIN creds -> Row]
    BY <1>1, <1>2
  <2>. QED BY <1>2, <2>1, <2>2, <2>3 DEF CredentialInit, CredentialTypeOK, ChangeType, Untried, IdleBuilder
<1>4. InUse = {1}
  BY <1>2 DEF InUse
<1>5. KeyFileThere /\ BackendCurrent
  BY DEF CredentialInit, KeyFileThere, BackendCurrent
<1>. QED BY <1>3, <1>4, <1>5 DEF CredentialInv

\* Moving a request on keeps it a request.
LEMMA GoesEffect ==
  ASSUME CredentialTypeOK, NEW r \in Change,
         NEW l \in {"away", "write", "clear", "unlink", "done"}, Goes(r, l)
  PROVE  /\ change' \in [Change -> ChangeType] /\ change'[r].pc = l
         /\ \A q \in Change : q # r => change'[q] = change[q]
<1>1. change[r] \in ChangeType
  BY DEF CredentialTypeOK
<1>2. [change[r] EXCEPT !.pc = l] \in ChangeType /\ [change[r] EXCEPT !.pc = l].pc = l
  BY <1>1 DEF ChangeType
<1>3. change' = [change EXCEPT ![r] = [change[r] EXCEPT !.pc = l]]
  BY DEF Goes
<1>. QED BY <1>2, <1>3 DEF CredentialTypeOK

\* What a step does that leaves the rows of the table alone.
LEMMA CredentialAside ==
  ASSUME CredentialInv, UNCHANGED << creds, misread >>, CredentialTypeOK',
         (keyfiles \cup swept) \cap DOMAIN creds \subseteq keyfiles' \cup swept', BackendCurrent'
  PROVE  CredentialInv'
<1>1. InUse' = InUse
  BY DEF InUse
<1>2. KeyFileThere'
  BY DEF CredentialInv, KeyFileThere
<1>. QED BY <1>1, <1>2 DEF CredentialInv

LEMMA CredentialStep == CredentialInv /\ [CredentialNext]_crediting => CredentialInv'
<1>. SUFFICES ASSUME CredentialInv, [CredentialNext]_crediting PROVE CredentialInv'
  OBVIOUS
<1>t. CredentialTypeOK
  BY DEF CredentialInv
<1>k. \A id \in DOMAIN creds : creds[id] \in Row /\ id \in Nat /\ creds[id].key \in Nat
  BY <1>t, CredentialAssumption DEF CredentialTypeOK, Row
\* The kept backend stays current where nothing it was built from changes.
<1>c. ASSUME UNCHANGED << creds, config, cached >>, torn => torn',
             \A q \in Change : change[q].pc = "clear" => change'[q].pc = "clear"
      PROVE  BackendCurrent'
  <2>1. InForce' = InForce
    BY <1>c DEF InForce, ActiveKey, InUse
  <2>. QED BY <1>c, <2>1 DEF CredentialInv, BackendCurrent
<1>v. ASSUME NEW r \in Change, change'[r].pc = "clear" PROVE BackendCurrent'
  BY <1>v DEF BackendCurrent
<1>1. ASSUME NEW r \in Change, LookForActive(r) \/ LoadCredential(r) PROVE CredentialInv'
  <2>1. PICK c \in ChangeType : change' = [change EXCEPT ![r] = c]
    <3>1. CASE LookForActive(r)
      BY <3>1 DEF LookForActive, ChangeType
    <3>2. CASE LoadCredential(r)
      BY <3>2, <1>k DEF LoadCredential, ChangeType, Row
    <3>. QED BY <1>1, <3>1, <3>2
  <2>2. UNCHANGED << creds, config, keyfiles, cached, builder, writes, torn, misread, swept >>
        /\ change[r].pc = "away"
    BY <1>1 DEF LookForActive, LoadCredential
  <2>3. CredentialTypeOK'
    BY <2>1, <2>2, <1>t DEF CredentialTypeOK
  <2>4. BackendCurrent'
    BY <2>1, <2>2, <1>c, <1>t DEF CredentialTypeOK
  <2>. QED BY <2>2, <2>3, <2>4, CredentialAside
<1>2. ASSUME NEW r \in Change, UpdateGone(r) PROVE CredentialInv'
  <2>1. PICK l \in {"clear", "done"} : Goes(r, l)
    BY <1>2 DEF UpdateGone
  <2>2. UNCHANGED << creds, config, keyfiles, cached, builder, writes, torn, misread, swept >>
        /\ change[r].pc = "write"
    BY <1>2 DEF UpdateGone, AtWrite
  <2>3. CredentialTypeOK'
    BY <2>1, <2>2, <1>t, GoesEffect DEF CredentialTypeOK
  <2>4. BackendCurrent'
    BY <2>1, <2>2, <1>c, <1>t, GoesEffect
  <2>. QED BY <2>2, <2>3, <2>4, CredentialAside
<1>3. ASSUME NEW r \in Change, PatchConfig(r) PROVE CredentialInv'
  <2>1. [Untried EXCEPT !.op = "config", !.pc = "clear"] \in ChangeType
        /\ [Untried EXCEPT !.op = "config", !.pc = "clear"].pc = "clear"
    BY DEF Untried, ChangeType
  <2>2. CredentialTypeOK' /\ change'[r].pc = "clear"
    BY <1>3, <2>1, <1>t DEF PatchConfig, CredentialTypeOK
  <2>. QED BY <1>3, <2>2, <1>v, CredentialAside DEF PatchConfig
<1>4. ASSUME NEW r \in Change, ClearCache(r) PROVE CredentialInv'
  <2>1. PICK l \in {"unlink", "done"} : Goes(r, l)
    BY <1>4 DEF ClearCache
  <2>2. CredentialTypeOK'
    BY <1>4, <2>1, <1>t, GoesEffect DEF ClearCache, CredentialTypeOK
  <2>3. BackendCurrent'
    BY <1>4 DEF ClearCache, BackendCurrent
  <2>. QED BY <1>4, <2>2, <2>3, CredentialAside DEF ClearCache
<1>5. ASSUME NEW r \in Change, Unlink(r) PROVE CredentialInv'
  <2>1. Goes(r, "done") /\ change[r].pc = "unlink"
        /\ UNCHANGED << creds, config, cached, builder, writes, torn, misread >>
    BY <1>5 DEF Unlink
  <2>2. CredentialTypeOK'
    BY <2>1, <1>t, GoesEffect DEF CredentialTypeOK
  <2>3. BackendCurrent'
    BY <2>1, <1>c, <1>t, GoesEffect
  <2>. QED BY <1>5, <2>1, <2>2, <2>3, CredentialAside DEF Unlink
<1>6. ASSUME NEW r \in Change, Activate(r) PROVE CredentialInv'
  <2>1. Goes(r, "clear") /\ UNCHANGED << config, builder, writes, keyfiles, swept >>
        /\ creds' = [id \in DOMAIN creds |-> [creds[id] EXCEPT !.active = id = change[r].id]]
        /\ misread' = (misread \/ change[r].id \notin DOMAIN creds)
    BY <1>6 DEF Activate
  <2>2. \A id \in DOMAIN creds :
          creds'[id] \in Row /\ (creds'[id].active <=> id = change[r].id)
          /\ creds'[id].file = creds[id].file
    BY <2>1, <1>k DEF Row
  <2>3. CredentialTypeOK'
    BY <2>1, <2>2, <1>t, GoesEffect DEF CredentialTypeOK
  <2>4. InUse' = {change[r].id} \cap DOMAIN creds
    BY <2>1, <2>2 DEF InUse
  <2>5. KeyFileThere'
    BY <2>1, <2>2 DEF CredentialInv, KeyFileThere
  <2>6. DOMAIN creds' = DOMAIN creds
    BY <2>1
  <2>7. BackendCurrent'
    BY <2>1, <1>t, <1>v, GoesEffect
  <2>. QED BY <2>1, <2>3, <2>4, <2>5, <2>6, <2>7 DEF CredentialInv
<1>7. ASSUME NEW r \in Change, Update(r) PROVE CredentialInv'
  <2>. DEFINE c == change[r]
  <2>1. /\ c.id \in DOMAIN creds /\ creds' = [creds EXCEPT ![c.id].key = writes + 1]
        /\ writes' = writes + 1 /\ change[r].pc = "write"
        /\ torn' = (torn \/ (~c.active /\ creds[c.id].active /\ cached # NoBackend))
        /\ Goes(r, IF c.active THEN "clear" ELSE "done")
        /\ UNCHANGED << config, keyfiles, cached, builder, builds, misread, swept >>
    BY <1>7 DEF Update, AtWrite
  <2>2. /\ DOMAIN creds' = DOMAIN creds
        /\ \A id \in DOMAIN creds :
             /\ creds'[id] \in Row /\ creds'[id].active = creds[id].active
             /\ creds'[id].file = creds[id].file
             /\ id # c.id => creds'[id] = creds[id]
    <3>1. [creds[c.id] EXCEPT !.key = writes + 1] \in Row
          /\ [creds[c.id] EXCEPT !.key = writes + 1].active = creds[c.id].active
          /\ [creds[c.id] EXCEPT !.key = writes + 1].file = creds[c.id].file
      BY <2>1, <1>k, <1>t DEF Row, CredentialTypeOK
    <3>2. creds' = [creds EXCEPT ![c.id] = [creds[c.id] EXCEPT !.key = writes + 1]]
      BY <2>1
    <3>3. \A id \in DOMAIN creds :
            creds'[id] = IF id = c.id THEN [creds[c.id] EXCEPT !.key = writes + 1] ELSE creds[id]
      BY <3>2, <1>t DEF CredentialTypeOK
    <3>. QED BY <3>1, <3>2, <3>3, <1>k, <1>t DEF CredentialTypeOK
  <2>typed. CredentialTypeOK'
    <3>1. creds' \in [DOMAIN creds' -> Row]
      BY <2>1, <2>2, <1>t DEF CredentialTypeOK
    <3>2. change' \in [Change -> ChangeType] /\ writes' \in Nat
      BY <2>1, <1>t, GoesEffect DEF CredentialTypeOK
    <3>. QED BY <2>1, <2>2, <3>1, <3>2, <1>t DEF CredentialTypeOK
  <2>inUse. InUse' = InUse
    BY <2>2 DEF InUse
  <2>files. KeyFileThere'
    BY <2>1, <2>2 DEF CredentialInv, KeyFileThere
  <2>backend. BackendCurrent'
    <3>1. CASE c.active
      BY <2>1, <3>1, <1>t, <1>v, GoesEffect
    <3>2. CASE ~ c.active /\ creds[c.id].active /\ cached # NoBackend
      BY <2>1, <3>2 DEF BackendCurrent
    <3>3. CASE cached = NoBackend
      BY <2>1, <3>3 DEF BackendCurrent
    <3>4. CASE ~ c.active /\ ~ creds[c.id].active
      <4>1. ActiveKey' = ActiveKey
        <5>1. \A id \in InUse : creds'[id] = creds[id]
          BY <2>2, <3>4 DEF InUse
        <5>2. InUse # {} => (CHOOSE id \in InUse : TRUE) \in InUse
          OBVIOUS
        <5>. QED BY <5>1, <5>2, <2>inUse DEF ActiveKey
      <4>2. InForce' = InForce
        BY <2>1, <4>1 DEF InForce
      <4>3. \A q \in Change : change[q].pc = "clear" => change'[q].pc = "clear"
        BY <2>1, <1>t, GoesEffect
      <4>. QED BY <2>1, <4>2, <4>3 DEF CredentialInv, BackendCurrent
    <3>. QED BY <3>1, <3>2, <3>3, <3>4
  <2>. QED BY <2>1, <2>2, <2>typed, <2>inUse, <2>files, <2>backend DEF CredentialInv
<1>8. ASSUME NEW r \in Change, Insert(r) PROVE CredentialInv'
  <2>. DEFINE c == change[r]
  <2>1. NextId \notin DOMAIN creds /\ NextId \in 1 .. MaxIds
    BY <1>8, <1>t, NextIdFresh DEF Insert
  <2>2. CASE c.active /\ InUse # {}
    <3>1. Goes(r, "done") /\ change[r].pc = "write"
          /\ UNCHANGED << creds, config, cached, builder, torn, keyfiles, writes, misread, swept >>
      BY <1>8, <2>2 DEF Insert, AtWrite
    <3>2. CredentialTypeOK'
      BY <3>1, <1>t, GoesEffect DEF CredentialTypeOK
    <3>3. BackendCurrent'
      BY <3>1, <1>c, <1>t, GoesEffect
    <3>. QED BY <3>1, <3>2, <3>3, CredentialAside
  <2>3. CASE ~ (c.active /\ InUse # {})
    <3>. DEFINE n == NextId
                new == [active |-> c.active, key |-> writes + 1, file |-> c.file]
    <3>1. /\ creds' = [id \in DOMAIN creds \union {n} |-> IF id = n THEN new ELSE creds[id]]
          /\ writes' = writes + 1
          /\ keyfiles' = (IF c.file THEN keyfiles \union {n} ELSE keyfiles)
          /\ swept' = swept \ {n}
          /\ misread' = (misread \/ c.active # (InUse = {}))
          /\ Goes(r, "clear")
          /\ UNCHANGED << config, builder >>
      BY <1>8, <2>3 DEF Insert
    <3>2. new \in Row /\ new.active = c.active /\ new.file = c.file
      <4>1. c \in ChangeType
        BY <1>t DEF CredentialTypeOK
      <4>. QED BY <4>1, <1>t DEF CredentialTypeOK, ChangeType, Row
    <3>. HIDE DEF n, new
    <3>3. /\ DOMAIN creds' = DOMAIN creds \union {n}
          /\ creds'[n] = new /\ \A id \in DOMAIN creds : creds'[id] = creds[id]
      BY <3>1, <2>1 DEF n
    <3>4. CredentialTypeOK'
      <4>1. DOMAIN creds' \subseteq 1 .. MaxIds + 2
        BY <3>3, <2>1, <1>t, CredentialAssumption DEF CredentialTypeOK, n
      <4>2. creds' \in [DOMAIN creds' -> Row]
        BY <3>1, <3>2, <3>3, <1>k
      <4>3. writes' \in Nat
        BY <3>1, <1>t DEF CredentialTypeOK
      <4>. QED BY <3>1, <4>1, <4>2, <4>3, <1>t, GoesEffect DEF CredentialTypeOK
    <3>5. InUse' = IF c.active THEN InUse \union {n} ELSE InUse
      BY <3>2, <3>3, <2>1 DEF InUse, n
    <3>6. /\ \A i, j \in InUse' : i = j
          /\ DOMAIN creds' # {} /\ InUse' = {} => misread'
      <4>1. c.active \in BOOLEAN
        BY <1>t DEF CredentialTypeOK, ChangeType
      <4>2. CASE c.active
        BY <4>2, <3>5, <2>3
      <4>3. CASE ~ c.active
        <5>1. InUse = {} => misread'
          BY <3>1, <4>1, <4>3
        <5>. QED BY <5>1, <4>3, <3>5 DEF CredentialInv
      <4>. QED BY <4>2, <4>3
    <3>7. KeyFileThere'
      BY <3>1, <3>2, <3>3, <2>1 DEF CredentialInv, KeyFileThere, n
    <3>8. BackendCurrent'
      BY <3>1, <1>t, <1>v, GoesEffect
    <3>. QED BY <3>4, <3>6, <3>7, <3>8 DEF CredentialInv
  <2>. QED BY <2>2, <2>3
<1>9. ASSUME NEW r \in Change, Delete(r) PROVE CredentialInv'
  <2>. DEFINE c == change[r]
              After == InUseAfter(c.id, c.active)
  <2>1. change[r].pc = "write"
        /\ UNCHANGED << config, keyfiles, cached, builder, writes, builds, torn, swept >>
    BY <1>9 DEF Delete, AtWrite
  <2>2. CASE Cardinality(After) > 1
    <3>1. Goes(r, "done") /\ UNCHANGED << creds, misread >>
      BY <1>9, <2>2 DEF Delete
    <3>2. CredentialTypeOK'
      BY <2>1, <3>1, <1>t, GoesEffect DEF CredentialTypeOK
    <3>3. BackendCurrent'
      BY <2>1, <3>1, <1>c, <1>t, GoesEffect
    <3>. QED BY <2>1, <3>1, <3>2, <3>3, CredentialAside
  <2>3. CASE ~ (Cardinality(After) > 1)
    <3>1. /\ creds' = [id \in Rest(c.id) |-> [creds[id] EXCEPT !.active = id \in After]]
          /\ misread' = (misread \/ (c.id \in InUse /\ ~c.active))
          /\ Goes(r, "clear")
      BY <1>9, <2>3 DEF Delete
    <3>. HIDE DEF After
    <3>2. /\ DOMAIN creds' = Rest(c.id) /\ Rest(c.id) \subseteq DOMAIN creds
          /\ \A id \in Rest(c.id) :
               creds'[id] \in Row /\ (creds'[id].active <=> id \in After)
               /\ creds'[id].file = creds[id].file
      <4>1. ASSUME NEW id \in Rest(c.id)
            PROVE  creds'[id] \in Row /\ (creds'[id].active <=> id \in After)
                   /\ creds'[id].file = creds[id].file
        <5>1. creds'[id] = [creds[id] EXCEPT !.active = id \in After] /\ creds[id] \in Row
          BY <3>1, <1>k DEF Rest
        <5>2. CASE id \in After
          <6>1. creds'[id] = [creds[id] EXCEPT !.active = TRUE]
            BY <5>1, <5>2
          <6>. QED BY <5>1, <5>2, <6>1 DEF Row
        <5>3. CASE id \notin After
          <6>2. (id \in After) = FALSE
            BY <5>3
          <6>1. creds'[id] = [creds[id] EXCEPT !.active = FALSE]
            BY <5>1, <6>2, Zenon
          <6>. QED BY <5>1, <5>3, <6>1 DEF Row
        <5>. QED BY <5>2, <5>3
      <4>. QED BY <4>1, <3>1 DEF Rest
    <3>3. CredentialTypeOK'
      <4>1. creds' \in [DOMAIN creds' -> Row]
        BY <3>1, <3>2
      <4>. QED BY <2>1, <3>1, <3>2, <4>1, <1>t, GoesEffect DEF CredentialTypeOK
    <3>4. After \subseteq Rest(c.id) /\ InUse' = After
      <4>1. After \subseteq Rest(c.id)
        BY DEF After, InUseAfter, Promoted, InUse, Rest
      <4>. QED BY <4>1, <3>2 DEF InUse
    <3>5. \A i, j \in After : i = j
      <4>1. SUFFICES ASSUME NEW i \in After, NEW j \in After, i # j PROVE FALSE
        OBVIOUS
      <4>2. IsFiniteSet(After)
        <5>1. IsFiniteSet(1 .. MaxIds + 2)
          BY CredentialAssumption, FS_Interval
        <5>2. After \in SUBSET (1 .. MaxIds + 2)
          BY <3>2, <3>4, <1>t DEF CredentialTypeOK
        <5>. QED BY <5>1, <5>2, FS_Subset
      <4>3. Cardinality({i, j}) = 2
        <5>1. IsFiniteSet({i}) /\ Cardinality({i}) = 1
          BY FS_Singleton
        <5>2. {i} \union {j} = {i, j} /\ j \notin {i}
          BY <4>1
        <5>3. Cardinality({i} \union {j}) = Cardinality({i}) + 1
          BY <5>1, <5>2, FS_AddElement
        <5>. QED BY <5>1, <5>2, <5>3
      <4>4. {i, j} \in SUBSET After
        OBVIOUS
      <4>5. Cardinality({i, j}) <= Cardinality(After) /\ Cardinality(After) \in Nat
        BY <4>2, <4>4, FS_Subset, FS_CardinalityType
      <4>. QED BY <4>3, <4>5, <2>3
    <3>6. DOMAIN creds' # {} /\ InUse' = {} => misread'
      <4>1. SUFFICES ASSUME Rest(c.id) # {}, After = {} PROVE misread'
        BY <3>2, <3>4
      <4>2. \E n \in Rest(c.id) : \A m \in Rest(c.id) : n <= m
        <5>1. Rest(c.id) \in SUBSET (1 .. MaxIds + 2) /\ MaxIds + 2 \in Nat
          BY <3>2, <1>t, CredentialAssumption DEF CredentialTypeOK
        <5>. QED BY <4>1, <5>1, LeastNumber
      <4>3. ~ c.active
        BY <4>1, <4>2 DEF After, InUseAfter, Promoted
      <4>4. CASE c.id \in InUse
        BY <4>3, <4>4, <3>1
      <4>5. CASE c.id \notin InUse
        <5>1. InUse = {} /\ DOMAIN creds # {}
          BY <4>1, <4>5, <3>2 DEF After, InUseAfter
        <5>. QED BY <5>1, <3>1 DEF CredentialInv
      <4>. QED BY <4>4, <4>5
    <3>7. KeyFileThere'
      BY <2>1, <3>2 DEF CredentialInv, KeyFileThere
    <3>8. BackendCurrent'
      BY <3>1, <1>t, <1>v, GoesEffect
    <3>. QED BY <3>3, <3>4, <3>5, <3>6, <3>7, <3>8 DEF CredentialInv
  <2>. QED BY <2>2, <2>3
<1>10. ASSUME NEW b \in Builder, ReadConfig(b) \/ ReadCredential(b) PROVE CredentialInv'
  <2>1. UNCHANGED << creds, config, keyfiles, cached, change, writes, torn, misread, swept >>
    BY <1>10 DEF ReadConfig, ReadCredential
  <2>2. builder' \in [Builder -> [pc : {"idle", "credential", "store"}, config : Nat, key : Nat]]
    <3>1. CASE ReadConfig(b)
      BY <3>1, <1>t DEF ReadConfig, CredentialTypeOK
    <3>2. CASE ReadCredential(b)
      <4>1. ActiveKey \in Nat
        <5>1. InUse # {} => (CHOOSE id \in InUse : TRUE) \in DOMAIN creds
          BY DEF InUse
        <5>. QED BY <5>1, <1>k DEF ActiveKey
      <4>. QED BY <3>2, <4>1, <1>t DEF ReadCredential, CredentialTypeOK
    <3>. QED BY <1>10, <3>1, <3>2
  <2>3. CredentialTypeOK'
    BY <2>1, <2>2, <1>t DEF CredentialTypeOK
  <2>. QED BY <2>1, <2>3, <1>c, CredentialAside
<1>11. ASSUME NEW b \in Builder, StoreBackend(b) PROVE CredentialInv'
  <2>1. UNCHANGED << creds, config, keyfiles, change, writes, misread, swept >>
        /\ torn' = (cached' # InForce) /\ builder' = [builder EXCEPT ![b] = IdleBuilder]
    BY <1>11 DEF StoreBackend
  <2>2. CredentialTypeOK'
    BY <2>1, <1>t DEF CredentialTypeOK, IdleBuilder
  <2>3. InForce' = InForce
    BY <2>1 DEF InForce, ActiveKey, InUse
  <2>4. BackendCurrent'
    BY <2>1, <2>3 DEF BackendCurrent
  <2>. QED BY <2>1, <2>2, <2>4, CredentialAside
<1>12. CASE UNCHANGED crediting
  <2>1. UNCHANGED << creds, config, keyfiles, cached, change, builder, writes, torn, misread, swept >>
    BY <1>12 DEF crediting
  <2>2. CredentialTypeOK'
    BY <2>1, <1>t DEF CredentialTypeOK
  <2>. QED BY <2>1, <2>2, <1>c, CredentialAside
<1>. QED BY <1>1, <1>2, <1>3, <1>4, <1>5, <1>6, <1>7, <1>8, <1>9, <1>10, <1>11, <1>12 DEF CredentialNext

\* Whatever the order of the requests on a provider's credentials and of the
\* tasks that build backends in between: the kept backend is the one in force
\* but for the windows it names, no two credentials are ever in use, none is
\* only after a stale read, and an uploaded credential has its file.
THEOREM CredentialsStayHonest == CredentialSpec => []CredentialsHonest
<1>1. CredentialInv => CredentialsHonest
  <2>. SUFFICES ASSUME CredentialInv PROVE CredentialsHonest
    OBVIOUS
  <2>1. Cardinality(InUse) <= 1
    <3>1. CASE InUse = {}
      BY <3>1, FS_EmptySet
    <3>2. CASE InUse # {}
      <4>1. PICK i : InUse = {i}
        BY <3>2 DEF CredentialInv
      <4>. QED BY <4>1, FS_Singleton
    <3>. QED BY <3>1, <3>2
  <2>. QED BY <2>1 DEF CredentialInv, CredentialsHonest, OneInUse
<1>. QED BY <1>1, InitCredentials, CredentialStep, PTL DEF CredentialSpec

-------------------------------------------------------------------------------
(* Custom providers.                                                         *)

ProviderTypeOK ==
  /\ births \in Nat
  /\ DOMAIN born \subseteq 1 .. births /\ DOMAIN models = DOMAIN born
  /\ born = [id \in DOMAIN born |-> born[id]] /\ models = [id \in DOMAIN born |-> models[id]]
  /\ settings = [k \in SettingKey |-> settings[k]] /\ project = [k \in SettingKey |-> project[k]]
  /\ admin = [r \in Admin |-> [op |-> admin[r].op, pc |-> admin[r].pc, id |-> admin[r].id,
                              list |-> admin[r].list, gone |-> admin[r].gone]]
  /\ runner = [t \in Runner |-> [kind |-> runner[t].kind, pc |-> runner[t].pc,
                                ref |-> runner[t].ref, row |-> runner[t].row]]

\* The rows of a provider, and those a request is about to put in their place,
\* are a list that was accepted.
RowsAccepted ==
  /\ \A id \in DOMAIN born : Accepted(models[id])
  /\ \A r \in Admin : admin[r].pc = "write" /\ admin[r].op \in {"put", "replace"} => Accepted(admin[r].list)

ProviderInv == ProviderTypeOK /\ RowsAccepted /\ ProvidersHonest

\* The number a new provider gets is no provider's.
LEMMA NextProviderFresh ==
  ASSUME ProviderTypeOK
  PROVE  NextProvider \notin DOMAIN born /\ NextProvider \in 1 .. births + 1
<1>. DEFINE N == {n \in 1 .. births : \E id \in DOMAIN born : id >= n}
            k == Cardinality(N)
<1>1. births \in Nat /\ DOMAIN born \subseteq 1 .. births
  BY DEF ProviderTypeOK
<1>2. IsFiniteSet(N) /\ k \in Nat /\ k <= births
  <2>1. IsFiniteSet(1 .. births) /\ Cardinality(1 .. births) = births
    BY <1>1, FS_Interval
  <2>2. N \in SUBSET (1 .. births)
    OBVIOUS
  <2>. QED BY <2>1, <2>2, FS_Subset, FS_CardinalityType
<1>3. NextProvider = k + 1
  BY <1>2 DEF NextProvider
<1>4. ASSUME NextProvider \in DOMAIN born PROVE FALSE
  <2>1. 1 .. (k + 1) \in SUBSET N
    BY <1>1, <1>2, <1>3, <1>4
  <2>2. Cardinality(1 .. (k + 1)) = k + 1
    BY <1>2, FS_Interval
  <2>3. Cardinality(1 .. (k + 1)) <= k
    BY <2>1, <1>2, FS_Subset
  <2>. QED BY <2>2, <2>3, <1>2
<1>. QED BY <1>1, <1>2, <1>3, <1>4

\* A list that was accepted has two defaults for one kind of task only where
\* the task is about images.
LEMMA TwoDefaults ==
  ASSUME NEW rows, Accepted(rows), NEW media, Defaults(rows, media) # {},
         Cardinality(Defaults(rows, media)) # 1
  PROVE  media = "image"
<1>1. PICK m \in Defaults(rows, media) : TRUE
  OBVIOUS
<1>2. PICK n \in Defaults(rows, media) : n # m
  <2>1. Cardinality({m}) = 1
    BY FS_Singleton
  <2>2. Defaults(rows, media) # {m}
    BY <2>1
  <2>. QED BY <1>1, <2>2
<1>. QED BY <1>1, <1>2 DEF Defaults, Accepted

LEMMA InitProviders == ProvidersInit => ProviderInv
<1>. SUFFICES ASSUME ProvidersInit PROVE ProviderInv
  OBVIOUS
<1>1. ProviderTypeOK
  <2>1. admin = [r \in Admin |-> [op |-> admin[r].op, pc |-> admin[r].pc, id |-> admin[r].id,
                              list |-> admin[r].list, gone |-> admin[r].gone]]
    BY DEF ProvidersInit, Idle
  <2>2. runner = [t \in Runner |-> [kind |-> runner[t].kind, pc |-> runner[t].pc,
                                ref |-> runner[t].ref, row |-> runner[t].row]]
    BY DEF ProvidersInit, Unasked
  <2>. QED BY <2>1, <2>2 DEF ProvidersInit, ProviderTypeOK
<1>2. RowsAccepted
  BY DEF ProvidersInit, RowsAccepted, Idle
<1>3. NoneDangling
  BY DEF ProvidersInit, NoneDangling, MeansItsProvider, Unset
<1>4. BackendFits
  BY DEF ProvidersInit, BackendFits, Unasked
<1>. QED BY <1>1, <1>2, <1>3, <1>4 DEF ProviderInv, ProvidersHonest

\* What moving a request on does to the requests.
LEMMA AdminGoesEffect ==
  ASSUME ProviderTypeOK, NEW r \in Admin, NEW pc, AdminGoes(r, pc)
  PROVE  /\ admin' = [q \in Admin |-> [op |-> admin'[q].op, pc |-> admin'[q].pc, id |-> admin'[q].id,
                              list |-> admin'[q].list, gone |-> admin'[q].gone]]
         /\ admin'[r].pc = pc /\ admin'[r].id = admin[r].id
         /\ \A q \in Admin : q # r => admin'[q] = admin[q]
<1>1. /\ r \in DOMAIN admin /\ DOMAIN admin = Admin
      /\ \A q \in Admin : admin[q] = [op |-> admin[q].op, pc |-> admin[q].pc, id |-> admin[q].id,
                                      list |-> admin[q].list, gone |-> admin[q].gone]
  <2>1. admin = [q \in Admin |-> [op |-> admin[q].op, pc |-> admin[q].pc, id |-> admin[q].id,
                                      list |-> admin[q].list, gone |-> admin[q].gone]]
    BY DEF ProviderTypeOK
  <2>. QED BY <2>1
<1>2. /\ admin' = [q \in Admin |-> IF q = r THEN [admin[r] EXCEPT !.pc = pc] ELSE admin[q]]
  <2>1. admin' = [admin EXCEPT ![r] = [admin[r] EXCEPT !.pc = pc]]
    BY DEF AdminGoes
  <2>. QED BY <2>1, <1>1
<1>3. [admin[r] EXCEPT !.pc = pc] = [op |-> admin[r].op, pc |-> pc, id |-> admin[r].id,
                                      list |-> admin[r].list, gone |-> admin[r].gone]
  BY <1>1
<1>. QED BY <1>1, <1>2, <1>3

LEMMA ProviderStep == ProviderInv /\ [ProvidersNext]_provisioning => ProviderInv'
<1>. SUFFICES ASSUME ProviderInv, [ProvidersNext]_provisioning PROVE ProviderInv'
  OBVIOUS
<1>t. ProviderTypeOK /\ RowsAccepted /\ NoneDangling /\ BackendFits
  BY DEF ProviderInv, ProvidersHonest
<1>. DEFINE AdminShape(f) == f = [q \in Admin |-> [op |-> f[q].op, pc |-> f[q].pc, id |-> f[q].id,
                                                   list |-> f[q].list, gone |-> f[q].gone]]
            RunnerShape(f) == f = [t \in Runner |-> [kind |-> f[t].kind, pc |-> f[t].pc,
                                                     ref |-> f[t].ref, row |-> f[t].row]]
<1>s. AdminShape(admin) /\ RunnerShape(runner)
  BY <1>t DEF ProviderTypeOK
<1>a. ASSUME NEW t \in Runner, NEW new,
             new = [kind |-> new.kind, pc |-> new.pc, ref |-> new.ref, row |-> new.row],
             runner' = [runner EXCEPT ![t] = new],
             new.pc = "built" /\ new.ref.provider # 0 => EndpointMedia(new.row) = MediaNeeded(new.kind),
             new.row = "two defaults" => MediaNeeded(new.kind) = "image",
             UNCHANGED << born, models, settings, project, admin, births, written, littered >>
      PROVE  ProviderInv'
  <2>1. RunnerShape(runner') /\ runner'[t] = new /\ \A u \in Runner : u # t => runner'[u] = runner[u]
    <3>1. DOMAIN runner = Runner
      BY <1>s
    <3>2. runner' = [u \in Runner |-> IF u = t THEN new ELSE runner[u]]
      BY <3>1, <1>a
    <3>3. runner'[t] = new /\ \A u \in Runner : u # t => runner'[u] = runner[u]
      BY <3>2
    <3>4. \A u \in Runner : runner[u] = [kind |-> runner[u].kind, pc |-> runner[u].pc,
                                         ref |-> runner[u].ref, row |-> runner[u].row]
      BY <1>s
    <3>5. ASSUME NEW u \in Runner
          PROVE  runner'[u] = [kind |-> runner'[u].kind, pc |-> runner'[u].pc,
                               ref |-> runner'[u].ref, row |-> runner'[u].row]
      <4>1. CASE u = t
        BY <3>3, <4>1, <1>a, Zenon
      <4>2. CASE u # t
        BY <3>3, <3>4, <4>2, Zenon
      <4>. QED BY <4>1, <4>2
    <3>6. RunnerShape(runner')
      BY <3>2, <3>5, Zenon
    <3>. QED BY <3>3, <3>6
  <2>2. ProviderTypeOK'
    BY <2>1, <1>t, <1>a DEF ProviderTypeOK
  <2>3. RowsAccepted' /\ NoneDangling'
    BY <1>t, <1>a DEF RowsAccepted, NoneDangling, MeansItsProvider
  <2>4. BackendFits'
    BY <2>1, <1>t, <1>a DEF BackendFits
  <2>. QED BY <2>2, <2>3, <2>4 DEF ProviderInv, ProvidersHonest
<1>b. ASSUME NEW t \in Runner, NEW built,
             runner' = [runner EXCEPT ![t].pc = "built", ![t].row = built]
      PROVE  /\ runner' = [runner EXCEPT ![t] = [kind |-> runner[t].kind, pc |-> "built", ref |-> runner[t].ref, row |-> built]]
  <2>1. runner[t] = [kind |-> runner[t].kind, pc |-> runner[t].pc,
                     ref |-> runner[t].ref, row |-> runner[t].row]
    BY <1>s
  <2>2. [[runner[t] EXCEPT !.pc = "built"] EXCEPT !.row = built]
          = [kind |-> runner[t].kind, pc |-> "built", ref |-> runner[t].ref, row |-> built]
    <3>1. [runner[t] EXCEPT !.pc = "built"]
            = [kind |-> runner[t].kind, pc |-> "built", ref |-> runner[t].ref, row |-> runner[t].row]
      BY <2>1
    <3>. DEFINE mid == [kind |-> runner[t].kind, pc |-> "built", ref |-> runner[t].ref, row |-> runner[t].row]
    <3>2. [mid EXCEPT !.row = built]
            = [kind |-> runner[t].kind, pc |-> "built", ref |-> runner[t].ref, row |-> built]
      OBVIOUS
    <3>. QED BY <3>1, <3>2, Zenon
  <2>3. runner' = [runner EXCEPT ![t] = [[runner[t] EXCEPT !.pc = "built"] EXCEPT !.row = built]]
    <3>1. t \in DOMAIN runner
      BY <1>s
    <3>. QED BY <3>1, <1>b
  <2>. QED BY <2>2, <2>3, Zenon
<1>c. ASSUME NEW t \in Runner, NEW built,
             runner' = [runner EXCEPT ![t].pc = "raised", ![t].row = built]
      PROVE  /\ runner' = [runner EXCEPT ![t] = [kind |-> runner[t].kind, pc |-> "raised", ref |-> runner[t].ref, row |-> built]]
  <2>1. runner[t] = [kind |-> runner[t].kind, pc |-> runner[t].pc,
                     ref |-> runner[t].ref, row |-> runner[t].row]
    BY <1>s
  <2>2. [[runner[t] EXCEPT !.pc = "raised"] EXCEPT !.row = built]
          = [kind |-> runner[t].kind, pc |-> "raised", ref |-> runner[t].ref, row |-> built]
    <3>1. [runner[t] EXCEPT !.pc = "raised"]
            = [kind |-> runner[t].kind, pc |-> "raised", ref |-> runner[t].ref, row |-> runner[t].row]
      BY <2>1
    <3>. DEFINE mid == [kind |-> runner[t].kind, pc |-> "raised", ref |-> runner[t].ref, row |-> runner[t].row]
    <3>2. [mid EXCEPT !.row = built]
            = [kind |-> runner[t].kind, pc |-> "raised", ref |-> runner[t].ref, row |-> built]
      OBVIOUS
    <3>. QED BY <3>1, <3>2, Zenon
  <2>3. runner' = [runner EXCEPT ![t] = [[runner[t] EXCEPT !.pc = "raised"] EXCEPT !.row = built]]
    <3>1. t \in DOMAIN runner
      BY <1>s
    <3>. QED BY <3>1, <1>c
  <2>. QED BY <2>2, <2>3, Zenon
<1>1. ASSUME NEW r \in Admin, CreateProvider(r) PROVE ProviderInv'
  <2>. DEFINE n == NextProvider
  <2>1. n \notin DOMAIN born /\ n \in 1 .. births + 1
    BY <1>t, NextProviderFresh
  <2>2. PICK list \in Lists :
          /\ Accepted(list)
          /\ models' = [id \in DOMAIN born \union {n} |-> IF id = n THEN list ELSE models[id]]
          /\ born' = [id \in DOMAIN born \union {n} |-> IF id = n THEN births + 1 ELSE born[id]]
    BY <1>1 DEF CreateProvider
  <2>. HIDE DEF n
  <2>3. births' = births + 1 /\ AdminGoes(r, "done")
        /\ UNCHANGED << settings, project, runner, written, littered >> /\ admin[r].pc = "away"
    BY <1>1 DEF CreateProvider
  <2>4. AdminShape(admin') /\ admin'[r].pc = "done" /\ \A q \in Admin : q # r => admin'[q] = admin[q]
    BY <2>3, <1>t, AdminGoesEffect
  <2>5. ProviderTypeOK'
    <3>1. births' \in Nat /\ DOMAIN born' \subseteq 1 .. births' /\ DOMAIN models' = DOMAIN born'
      BY <2>1, <2>2, <2>3, <1>t DEF ProviderTypeOK
    <3>2. born' = [id \in DOMAIN born' |-> born'[id]] /\ models' = [id \in DOMAIN born' |-> models'[id]]
      BY <2>2
    <3>. QED BY <3>1, <3>2, <2>3, <2>4, <1>t DEF ProviderTypeOK
  <2>6. RowsAccepted'
    BY <2>1, <2>2, <2>4, <1>t DEF RowsAccepted
  <2>7. NoneDangling'
    <3>1. \A id \in DOMAIN born : id \in DOMAIN born' /\ born'[id] = born[id]
      BY <2>1, <2>2
    <3>2. \A q \in Admin : admin[q].pc = "clean" => admin'[q] = admin[q]
      BY <2>3, <2>4
    <3>. QED BY <3>1, <3>2, <2>3, <1>t DEF NoneDangling, MeansItsProvider
  <2>8. BackendFits'
    BY <2>3, <1>t DEF BackendFits
  <2>. QED BY <2>5, <2>6, <2>7, <2>8 DEF ProviderInv, ProvidersHonest
<1>2. ASSUME NEW r \in Admin, LoadProvider(r) PROVE ProviderInv'
  <2>1. PICK id \in DOMAIN born, list \in Lists \union {{}}, op \in {"put", "replace", "delete"} :
       /\ IF op = "delete" THEN list = {} ELSE list \in Lists /\ Accepted(list)
       /\ admin' = [admin EXCEPT ![r] = [op |-> op, pc |-> "write", id |-> id, list |-> list,
                      gone |-> IF op = "replace" THEN Names(models[id]) \ Names(list) ELSE {}]]
    BY <1>2 DEF LoadProvider
  <2>2. admin[r].pc = "away" /\ UNCHANGED << born, models, settings, project, runner, births, written, littered >>
    BY <1>2 DEF LoadProvider
  <2>3. /\ AdminShape(admin') /\ \A q \in Admin : q # r => admin'[q] = admin[q]
        /\ admin'[r].op = op /\ admin'[r].list = list
    <3>. DEFINE g == IF op = "replace" THEN Names(models[id]) \ Names(list) ELSE {}
    <3>0. admin' = [admin EXCEPT ![r] = [op |-> op, pc |-> "write", id |-> id, list |-> list, gone |-> g]]
      BY <2>1
    <3>. HIDE DEF g
    <3>1. DOMAIN admin = Admin
      BY <1>s
    <3>2. admin' = [q \in Admin |-> IF q = r THEN [op |-> op, pc |-> "write", id |-> id, list |-> list, gone |-> g] ELSE admin[q]]
      BY <3>0, <3>1
    <3>. QED BY <3>2, <1>s
  <2>4. ProviderTypeOK'
    BY <2>2, <2>3, <1>t DEF ProviderTypeOK
  <2>5. RowsAccepted'
    BY <2>1, <2>2, <2>3, <1>t DEF RowsAccepted
  <2>6. NoneDangling' /\ BackendFits'
    <3>1. \A q \in Admin : admin[q].pc = "clean" => admin'[q] = admin[q]
      BY <2>2, <2>3
    <3>. QED BY ZenonT(50), <3>1, <2>2, <1>t DEF NoneDangling, MeansItsProvider, BackendFits
  <2>. QED BY <2>4, <2>5, <2>6 DEF ProviderInv, ProvidersHonest
<1>3. ASSUME NEW r \in Admin, ReplaceModels(r) PROVE ProviderInv'
  <2>1. /\ admin[r].pc = "write" /\ admin[r].op \in {"put", "replace"} /\ admin[r].id \in DOMAIN born
        /\ models' = [models EXCEPT ![admin[r].id] = admin[r].list]
        /\ settings' = [k \in SettingKey |->
             IF settings[k].provider = admin[r].id /\ settings[k].model \in admin[r].gone THEN Automatic ELSE settings[k]]
        /\ AdminGoes(r, "done")
        /\ UNCHANGED << born, project, runner, births, written, littered >>
    BY <1>3 DEF ReplaceModels
  <2>2. AdminShape(admin') /\ admin'[r].pc = "done" /\ \A q \in Admin : q # r => admin'[q] = admin[q]
    BY <2>1, <1>t, AdminGoesEffect
  <2>3. models' = [id \in DOMAIN born |-> IF id = admin[r].id THEN admin[r].list ELSE models[id]]
    <3>1. models = [id \in DOMAIN born |-> models[id]]
      BY <1>t DEF ProviderTypeOK
    <3>. QED BY <2>1, <3>1
  <2>4. ProviderTypeOK'
    BY <2>1, <2>2, <2>3, <1>t DEF ProviderTypeOK
  <2>5. RowsAccepted'
    BY <2>1, <2>2, <2>3, <1>t DEF RowsAccepted
  <2>6. NoneDangling'
    <3>1. \A q \in Admin : admin[q].pc = "clean" => admin'[q] = admin[q]
      BY <2>1, <2>2
    <3>2. \A k \in SettingKey : settings'[k] = Automatic \/ settings'[k] = settings[k]
      BY <2>1
    <3>. QED BY <3>1, <3>2, <2>1, <1>t DEF NoneDangling, MeansItsProvider, Automatic
  <2>7. BackendFits'
    BY <2>1, <1>t DEF BackendFits
  <2>. QED BY <2>4, <2>5, <2>6, <2>7 DEF ProviderInv, ProvidersHonest
<1>4. ASSUME NEW r \in Admin, ReplaceFails(r) PROVE ProviderInv'
  <2>1. /\ admin[r].pc = "write" /\ AdminGoes(r, "done")
        /\ UNCHANGED << born, models, settings, project, runner, births, written, littered >>
    BY <1>4 DEF ReplaceFails
  <2>2. AdminShape(admin') /\ admin'[r].pc = "done" /\ \A q \in Admin : q # r => admin'[q] = admin[q]
    BY <2>1, <1>t, AdminGoesEffect
  <2>3. ProviderTypeOK'
    BY <2>1, <2>2, <1>t DEF ProviderTypeOK
  <2>4. RowsAccepted'
    BY <2>1, <2>2, <1>t DEF RowsAccepted
  <2>5. NoneDangling' /\ BackendFits'
    <3>1. \A q \in Admin : admin[q].pc = "clean" => admin'[q] = admin[q]
      BY <2>1, <2>2
    <3>. QED BY <3>1, <2>1, <1>t DEF NoneDangling, MeansItsProvider, BackendFits
  <2>. QED BY <2>3, <2>4, <2>5 DEF ProviderInv, ProvidersHonest
<1>5. ASSUME NEW r \in Admin, DeleteProvider(r) PROVE ProviderInv'
  <2>. DEFINE d == admin[r].id
  <2>1. /\ admin[r].pc = "write"
        /\ born' = [n \in DOMAIN born \ {d} |-> born[n]]
        /\ models' = [n \in DOMAIN born \ {d} |-> models[n]]
        /\ settings' = ClearedSettings(d)
        /\ AdminGoes(r, "clean")
        /\ UNCHANGED << project, runner, births, written, littered >>
    BY <1>5 DEF DeleteProvider
  <2>2. /\ AdminShape(admin') /\ admin'[r].pc = "clean" /\ admin'[r].id = d
        /\ \A q \in Admin : q # r => admin'[q] = admin[q]
    BY <2>1, <1>t, AdminGoesEffect
  <2>. HIDE DEF d
  <2>3. ProviderTypeOK'
    <3>1. /\ DOMAIN born' \subseteq 1 .. births' /\ DOMAIN models' = DOMAIN born'
          /\ born' = [id \in DOMAIN born' |-> born'[id]] /\ models' = [id \in DOMAIN born' |-> models'[id]]
      BY <2>1, <1>t DEF ProviderTypeOK
    <3>2. settings' = [k \in SettingKey |-> settings'[k]]
      BY <2>1 DEF ClearedSettings
    <3>. QED BY <3>1, <3>2, <2>1, <2>2, <1>t DEF ProviderTypeOK
  <2>4. RowsAccepted'
    BY <2>1, <2>2, <1>t DEF RowsAccepted
  <2>5. NoneDangling'
    <3>1. \A q \in Admin : admin[q].pc = "clean" => admin'[q] = admin[q]
      BY <2>1, <2>2
    <3>2. \A v : MeansItsProvider(v) /\ v.provider # d => MeansItsProvider(v)'
      <4>. SUFFICES ASSUME NEW v, MeansItsProvider(v), v.provider # d,
                           v.born # 0
                    PROVE  v.provider \in DOMAIN born' /\ born'[v.provider] = v.born
        BY DEF MeansItsProvider
      <4>. QED BY <2>1 DEF MeansItsProvider
    <3>3. \A k \in SettingKey : MeansItsProvider(settings[k])'
      <4>. SUFFICES ASSUME NEW k \in SettingKey PROVE MeansItsProvider(settings[k])'
        OBVIOUS
      <4>1. CASE settings[k].provider = d
        BY <4>1, <2>1 DEF ClearedSettings, Automatic, MeansItsProvider
      <4>2. CASE settings[k].provider # d
        <5>1. settings'[k] = settings[k]
          BY <4>2, <2>1 DEF ClearedSettings
        <5>. QED BY <5>1, <4>2, <2>1, <1>t DEF NoneDangling, MeansItsProvider
      <4>. QED BY <4>1, <4>2
    <3>4. ASSUME NEW k \in SettingKey
          PROVE MeansItsProvider(project[k])'
                \/ littered' \/ \E q \in Admin : admin'[q].pc = "clean" /\ admin'[q].id = project'[k].provider
      <4>1. CASE project[k].provider = d
        BY <4>1, <2>1, <2>2
      <4>2. CASE project[k].provider # d
        BY <4>2, <3>1, <2>1, <1>t DEF NoneDangling, MeansItsProvider
      <4>. QED BY <4>1, <4>2
    <3>. QED BY <3>3, <3>4 DEF NoneDangling
  <2>6. BackendFits'
    BY <2>1, <1>t DEF BackendFits
  <2>. QED BY <2>3, <2>4, <2>5, <2>6 DEF ProviderInv, ProvidersHonest
<1>6. ASSUME NEW r \in Admin, CleanProject(r) PROVE ProviderInv'
  <2>1. /\ admin[r].pc = "clean" /\ AdminGoes(r, "done")
        /\ project' = [k \in SettingKey |-> IF project[k].provider = admin[r].id THEN Unset ELSE project[k]]
        /\ UNCHANGED << born, models, settings, runner, births, written, littered >>
    BY <1>6 DEF CleanProject
  <2>2. AdminShape(admin') /\ admin'[r].pc = "done" /\ \A q \in Admin : q # r => admin'[q] = admin[q]
    BY <2>1, <1>t, AdminGoesEffect
  <2>3. ProviderTypeOK'
    BY <2>1, <2>2, <1>t DEF ProviderTypeOK
  <2>4. RowsAccepted'
    BY <2>1, <2>2, <1>t DEF RowsAccepted
  <2>5. NoneDangling' /\ BackendFits'
    BY ZenonT(50), <2>1, <2>2, <1>t DEF NoneDangling, MeansItsProvider, BackendFits, Unset
  <2>. QED BY <2>3, <2>4, <2>5 DEF ProviderInv, ProvidersHonest
<1>7. ASSUME NEW r \in Admin, CleanFails(r) PROVE ProviderInv'
  <2>1. /\ AdminGoes(r, "done") /\ littered' = TRUE
        /\ UNCHANGED << born, models, settings, project, runner, births, written >>
    BY <1>7 DEF CleanFails
  <2>2. AdminShape(admin') /\ admin'[r].pc = "done" /\ \A q \in Admin : q # r => admin'[q] = admin[q]
    BY <2>1, <1>t, AdminGoesEffect
  <2>3. ProviderTypeOK'
    BY <2>1, <2>2, <1>t DEF ProviderTypeOK
  <2>4. RowsAccepted'
    BY <2>1, <2>2, <1>t DEF RowsAccepted
  <2>5. NoneDangling' /\ BackendFits'
    BY <2>1, <2>2, <1>t DEF NoneDangling, MeansItsProvider, BackendFits
  <2>. QED BY <2>3, <2>4, <2>5 DEF ProviderInv, ProvidersHonest
<1>r. \A ref : MeansItsProvider(ReferenceTo(ref))
  BY DEF MeansItsProvider, ReferenceTo
<1>8. CASE PatchSettings
  <2>1. PICK k \in SettingKey, value \in {ReferenceTo(ref) : ref \in Referred} \union {Automatic} :
          settings' = [settings EXCEPT ![k] = value]
    BY <1>8 DEF PatchSettings
  <2>2. MeansItsProvider(value)
    BY <1>r DEF Automatic, MeansItsProvider
  <2>3. settings' = [s \in SettingKey |-> IF s = k THEN value ELSE settings[s]]
    <3>1. settings = [s \in SettingKey |-> settings[s]]
      BY <1>t DEF ProviderTypeOK
    <3>. QED BY <2>1, <3>1
  <2>4. UNCHANGED << born, models, project, admin, runner, births, littered >>
    BY <1>8 DEF PatchSettings
  <2>5. ProviderTypeOK'
    BY <2>3, <2>4, <1>t DEF ProviderTypeOK
  <2>6. RowsAccepted' /\ NoneDangling' /\ BackendFits'
    BY <2>2, <2>3, <2>4, <1>t DEF RowsAccepted, NoneDangling, MeansItsProvider, BackendFits
  <2>. QED BY <2>5, <2>6 DEF ProviderInv, ProvidersHonest
<1>9. CASE PatchProject
  <2>1. PICK k \in SettingKey, value \in {ReferenceTo(ref) : ref \in Referred} \union {Unset} :
          project' = [project EXCEPT ![k] = value]
    BY <1>9 DEF PatchProject
  <2>2. MeansItsProvider(value)
    BY <1>r DEF Unset, MeansItsProvider
  <2>3. project' = [s \in SettingKey |-> IF s = k THEN value ELSE project[s]]
    <3>1. project = [s \in SettingKey |-> project[s]]
      BY <1>t DEF ProviderTypeOK
    <3>. QED BY <2>1, <3>1
  <2>4. UNCHANGED << born, models, settings, admin, runner, births, littered >>
    BY <1>9 DEF PatchProject
  <2>5. ProviderTypeOK'
    BY <2>3, <2>4, <1>t DEF ProviderTypeOK
  <2>6. RowsAccepted' /\ NoneDangling' /\ BackendFits'
    BY <2>2, <2>3, <2>4, <1>t DEF RowsAccepted, NoneDangling, MeansItsProvider, BackendFits
  <2>. QED BY <2>5, <2>6 DEF ProviderInv, ProvidersHonest
<1>10. ASSUME NEW t \in Runner, Resolve(t) PROVE ProviderInv'
  <2>0. PICK kind \in Kind : \E ref \in Resolved(kind) :
          runner' = [runner EXCEPT ![t] = [kind |-> kind, pc |-> "build", ref |-> ref, row |-> "none"]]
    BY <1>10 DEF Resolve
  <2>1. PICK ref \in Resolved(kind) :
          runner' = [runner EXCEPT ![t] = [kind |-> kind, pc |-> "build", ref |-> ref, row |-> "none"]]
    BY <2>0
  <2>. DEFINE new == [kind |-> kind, pc |-> "build", ref |-> ref, row |-> "none"]
  <2>2. new.pc = "build" /\ new.row = "none" /\ new = [kind |-> new.kind, pc |-> new.pc, ref |-> new.ref, row |-> new.row]
    OBVIOUS
  <2>3. runner' = [runner EXCEPT ![t] = new]
        /\ UNCHANGED << born, models, settings, project, admin, births, written, littered >>
    BY <2>1, <1>10 DEF Resolve
  <2>. HIDE DEF new
  <2>. QED BY <2>2, <2>3, <1>a
<1>11. ASSUME NEW t \in Runner, ResolveFails(t) PROVE ProviderInv'
  <2>1. PICK kind \in Kind :
          runner' = [runner EXCEPT ![t] = [kind |-> kind, pc |-> "raised", ref |-> Unset, row |-> "none"]]
    BY <1>11 DEF ResolveFails
  <2>. DEFINE new == [kind |-> kind, pc |-> "raised", ref |-> Unset, row |-> "none"]
  <2>2. new.pc = "raised" /\ new.row = "none" /\ new = [kind |-> new.kind, pc |-> new.pc, ref |-> new.ref, row |-> new.row]
    OBVIOUS
  <2>3. runner' = [runner EXCEPT ![t] = new]
        /\ UNCHANGED << born, models, settings, project, admin, births, written, littered >>
    BY <2>1, <1>11 DEF ResolveFails
  <2>. HIDE DEF new
  <2>. QED BY <2>2, <2>3, <1>a
\* What a build does: the task is built from a row that makes what it is for, or fails.
<1>d. ASSUME NEW t \in Runner, NEW pc, NEW built,
             runner' = [runner EXCEPT ![t] = [kind |-> runner[t].kind, pc |-> pc, ref |-> runner[t].ref, row |-> built]],
             pc = "built" /\ runner[t].ref.provider # 0 => EndpointMedia(built) = MediaNeeded(runner[t].kind),
             built = "two defaults" => MediaNeeded(runner[t].kind) = "image",
             UNCHANGED << born, models, settings, project, admin, births, written, littered >>
      PROVE  ProviderInv'
  <2>. DEFINE new == [kind |-> runner[t].kind, pc |-> pc, ref |-> runner[t].ref, row |-> built]
  <2>2. new = [kind |-> new.kind, pc |-> new.pc, ref |-> new.ref, row |-> new.row]
        /\ new.kind = runner[t].kind /\ new.pc = pc /\ new.ref = runner[t].ref /\ new.row = built
    OBVIOUS
  <2>3. runner' = [runner EXCEPT ![t] = new]
    BY <1>d
  <2>. HIDE DEF new
  <2>. QED BY <2>2, <2>3, <1>a, <1>d
<1>12. ASSUME NEW t \in Runner, BuildWanted(t) PROVE ProviderInv'
  <2>. DEFINE ref == runner[t].ref
              media == MediaNeeded(runner[t].kind)
  <2>u. UNCHANGED << born, models, settings, project, admin, births, written, littered >>
    BY <1>12 DEF BuildWanted
  <2>1. CASE ref.provider = 0 /\ runner' = [runner EXCEPT ![t].pc = "built"]
    <3>1. runner' = [runner EXCEPT ![t] = [kind |-> runner[t].kind, pc |-> "built", ref |-> runner[t].ref, row |-> runner[t].row]]
      <4>1. runner[t] = [kind |-> runner[t].kind, pc |-> runner[t].pc,
                         ref |-> runner[t].ref, row |-> runner[t].row]
        BY <1>s
      <4>2. [runner[t] EXCEPT !.pc = "built"]
              = [kind |-> runner[t].kind, pc |-> "built", ref |-> runner[t].ref, row |-> runner[t].row]
        BY <4>1
      <4>3. runner' = [runner EXCEPT ![t] = [runner[t] EXCEPT !.pc = "built"]]
        BY <2>1
      <4>. QED BY <4>2, <4>3, Zenon
    <3>2. runner[t].row = "two defaults" => MediaNeeded(runner[t].kind) = "image"
      BY <1>t DEF BackendFits
    <3>. QED BY <3>1, <3>2, <2>1, <2>u, <1>d
  <2>2. ASSUME NEW m \in Candidates(models[ref.provider], ref.model, media),
               runner' = [runner EXCEPT ![t].pc = "built", ![t].row = m.endpoint]
        PROVE  ProviderInv'
    <3>1. EndpointMedia(m.endpoint) = media
      BY <2>2 DEF Candidates
    <3>2. m.endpoint = "two defaults" => media = "image"
      BY <3>1 DEF EndpointMedia
    <3>. PICK built : built = m.endpoint
      OBVIOUS
    <3>3. runner' = [runner EXCEPT ![t].pc = "built", ![t].row = built]
      BY <2>2
    <3>4. runner' = [runner EXCEPT ![t] = [kind |-> runner[t].kind, pc |-> "built", ref |-> runner[t].ref, row |-> built]]
      BY <3>3, <1>b
    <3>. HIDE DEF media
    <3>. QED BY <3>1, <3>2, <3>4, <2>u, <1>d DEF media
  <2>. QED BY <2>1, <2>2, <1>12 DEF BuildWanted
<1>13. ASSUME NEW t \in Runner, BuildDefault(t) PROVE ProviderInv'
  <2>. DEFINE ref == runner[t].ref
              media == MediaNeeded(runner[t].kind)
  <2>1. PICK m \in Defaults(models[ref.provider], media) :
          runner' = [runner EXCEPT ![t].pc = "built", ![t].row = m.endpoint]
    BY <1>13 DEF BuildDefault
  <2>2. UNCHANGED << born, models, settings, project, admin, births, written, littered >>
    BY <1>13 DEF BuildDefault
  <2>3. EndpointMedia(m.endpoint) = media
    BY <2>1 DEF Defaults
  <2>4. m.endpoint = "two defaults" => media = "image"
    BY <2>3 DEF EndpointMedia
  <2>. PICK built : built = m.endpoint
    OBVIOUS
  <2>5. runner' = [runner EXCEPT ![t].pc = "built", ![t].row = built]
    BY <2>1
  <2>6. runner' = [runner EXCEPT ![t] = [kind |-> runner[t].kind, pc |-> "built", ref |-> runner[t].ref, row |-> built]]
    BY <2>5, <1>b
  <2>. QED BY <2>2, <2>3, <2>4, <2>6, <1>d
<1>14. ASSUME NEW t \in Runner, BuildFails(t) PROVE ProviderInv'
  <2>. DEFINE ref == runner[t].ref
              media == MediaNeeded(runner[t].kind)
              defaults == Defaults(models[ref.provider], media)
              found == IF ref.provider \notin DOMAIN born THEN "no provider"
                       ELSE IF defaults = {} THEN "no default" ELSE "two defaults"
  <2>1. /\ runner' = [runner EXCEPT ![t].pc = "raised", ![t].row = found]
        /\ ref.provider \in DOMAIN born => Cardinality(defaults) # 1
        /\ UNCHANGED << born, models, settings, project, admin, births, written, littered >>
    BY <1>14 DEF BuildFails
  <2>2. found = "two defaults" => media = "image"
    <3>. SUFFICES ASSUME found = "two defaults" PROVE media = "image"
      OBVIOUS
    <3>1. ref.provider \in DOMAIN born /\ defaults # {}
      BY DEF defaults
    <3>2. Accepted(models[ref.provider])
      BY <3>1, <1>t DEF RowsAccepted
    <3>. QED BY <3>1, <3>2, <2>1, TwoDefaults
  <2>3. PICK built : built = found
    OBVIOUS
  <2>4. runner' = [runner EXCEPT ![t].pc = "raised", ![t].row = built]
    BY <2>1, <2>3
  <2>. HIDE DEF found
  <2>5. runner' = [runner EXCEPT ![t] = [kind |-> runner[t].kind, pc |-> "raised", ref |-> runner[t].ref, row |-> built]]
    BY <2>4, <1>c
  <2>6. built = "two defaults" => MediaNeeded(runner[t].kind) = "image"
    BY <2>2, <2>3
  <2>7. UNCHANGED << born, models, settings, project, admin, births, written, littered >>
    BY <2>1
  <2>8. PICK pc : pc = "raised"
    OBVIOUS
  <2>9. runner' = [runner EXCEPT ![t] = [kind |-> runner[t].kind, pc |-> pc, ref |-> runner[t].ref, row |-> built]]
    BY <2>5, <2>8
  <2>10. pc = "built" /\ runner[t].ref.provider # 0 => EndpointMedia(built) = MediaNeeded(runner[t].kind)
    BY <2>8
  <2>. HIDE DEF media
  <2>. QED BY <2>6, <2>7, <2>9, <2>10, <1>d
<1>15. CASE UNCHANGED provisioning
  BY <1>15, <1>t DEF provisioning, ProviderInv, ProviderTypeOK, RowsAccepted, ProvidersHonest,
     NoneDangling, MeansItsProvider, BackendFits
<1>. QED BY <1>1, <1>2, <1>3, <1>4, <1>5, <1>6, <1>7, <1>8, <1>9, <1>10, <1>11, <1>12, <1>13,
            <1>14, <1>15 DEF ProvidersNext

\* In whatever order providers and their ids, models, settings and tasks come
\* and go, however many: no setting comes to mean another provider than the one
\* it was made for, and a task gets a backend for what it makes.
THEOREM ProvidersStayHonest == ProvidersSpec => []ProvidersHonest
<1>1. ProviderInv => ProvidersHonest
  BY DEF ProviderInv
<1>. QED BY <1>1, InitProviders, ProviderStep, PTL DEF ProvidersSpec

-------------------------------------------------------------------------------
(* The limiter.                                                              *)

Taken == [at : Nat, limit : Int, gap : Nat]

PaceTypeOK ==
  /\ now \in Nat /\ log \in Seq(Nat) /\ taken \in Seq(Taken)
  /\ rpm \in Int /\ gap \in Nat
  /\ asker \in [Asker -> [pc : {"away", "asking", "through"}, limit : Int, wake : Int]]

\* The log holds the last of the tokens taken, and those it has forgotten were
\* taken before the window.
LogOfTaken ==
  /\ Len(log) <= Len(taken)
  /\ \A i \in 1 .. Len(log) : log[i] = taken[Len(taken) - Len(log) + i].at
  /\ \A j \in 1 .. Len(taken) - Len(log) : now - taken[j].at > Window

PaceInv ==
  /\ PaceTypeOK
  /\ \A a \in Asker : asker[a].pc = "asking" => asker[a].limit > 0
  /\ gap <= Window + 1
  /\ LogOfTaken
  /\ Paced

\* What is left of the log when the old entries are popped.
LEMMA PurgedIs ==
  ASSUME PaceTypeOK
  PROVE  /\ Purged \in Seq(Nat) /\ Len(Purged) <= Len(log)
         /\ \A i \in 1 .. Len(Purged) : Purged[i] = log[Len(log) - Len(Purged) + i]
         /\ \A j \in 1 .. Len(log) - Len(Purged) : now - log[j] > Window
         /\ Purged # << >> => now - Head(Purged) <= Window
<1>. DEFINE k == Cardinality(Popped)
<1>1. Len(log) \in Nat /\ log \in Seq(Nat) /\ now \in Nat /\ DOMAIN log = 1 .. Len(log)
  BY DEF PaceTypeOK
<1>2. k \in Nat /\ k <= Len(log) /\ Popped = 1 .. k
  <2>1. Popped \in SUBSET (1 .. Len(log)) /\ \A n \in Popped : \A j \in 1 .. n : j \in Popped
    BY <1>1 DEF Popped
  <2>. QED BY <2>1, <1>1, PrefixIsInterval
<1>3. Purged = SubSeq(log, k + 1, Len(log))
  BY DEF Purged
<1>. HIDE DEF k
<1>4. Purged \in Seq(Nat) /\ Len(Purged) = Len(log) - k
      /\ \A i \in 1 .. Len(Purged) : Purged[i] = log[k + i]
  <2>1. Purged \in Seq(Nat) /\ Len(Purged) = Len(log) - k
    <3>1. k + 1 \in Int /\ Len(log) \in Int /\ \A i \in k + 1 .. Len(log) : log[i] \in Nat
      BY <1>1, <1>2
    <3>2. SubSeq(log, k + 1, Len(log)) \in Seq(Nat)
          /\ Len(SubSeq(log, k + 1, Len(log))) =
               IF k + 1 <= Len(log) THEN Len(log) - (k + 1) + 1 ELSE 0
      BY <3>1, SubSeqProperties
    <3>3. (IF k + 1 <= Len(log) THEN Len(log) - (k + 1) + 1 ELSE 0) = Len(log) - k
      <4>1. \A c, n \in Nat : c <= n => (IF c + 1 <= n THEN n - (c + 1) + 1 ELSE 0) = n - c
        OBVIOUS
      <4>. QED BY <4>1, <1>1, <1>2
    <3>. QED BY <3>2, <3>3, <1>3
  <2>2. ASSUME NEW i \in 1 .. Len(Purged) PROVE Purged[i] = log[k + i]
    <3>1. i \in 1 .. Len(log) - (k + 1) + 1 /\ (k + 1) + i - 1 = k + i
      BY <2>1, <1>1, <1>2
    <3>2. Purged[i] = log[(k + 1) + i - 1]
      BY <3>1, <1>1, <1>2, <1>3
    <3>. QED BY <3>1, <3>2
  <2>. QED BY <2>1, <2>2
<1>5. \A j \in 1 .. k : now - log[j] > Window
  BY <1>1, <1>2 DEF Popped
<1>6. ASSUME Purged # << >> PROVE now - Head(Purged) <= Window
  <2>1. k < Len(log) /\ Head(Purged) = log[k + 1]
    BY <1>1, <1>2, <1>4, <1>6
  <2>2. k + 1 \notin Popped
    BY <1>2
  <2>3. k + 1 \in DOMAIN log
    BY <2>1, <1>1, <1>2
  <2>4. PICK j \in 1 .. k + 1 : ~ (now - log[j] > Window)
    BY <2>2, <2>3 DEF Popped
  <2>5. j = k + 1
    BY <2>4, <1>2, <1>5
  <2>6. log[k + 1] \in Nat /\ Window \in Nat
    BY <2>3, <1>1, PaceAssumption
  <2>. QED BY <2>1, <2>4, <2>5, <2>6, <1>1
<1>. QED BY <1>1, <1>2, <1>4, <1>5, <1>6

LEMMA InitPace == (\A g \in Gaps : g <= Window + 1) /\ PaceInit => PaceInv
<1>. SUFFICES ASSUME \A g \in Gaps : g <= Window + 1, PaceInit PROVE PaceInv
  OBVIOUS
<1>. USE PaceAssumption
<1>1. PaceTypeOK
  BY DEF PaceInit, PaceTypeOK, Away
<1>2. LogOfTaken /\ Paced
  BY DEF PaceInit, LogOfTaken, Paced
<1>. QED BY <1>1, <1>2 DEF PaceInit, PaceInv, Away

LEMMA PaceStep == (\A g \in Gaps : g <= Window + 1) /\ PaceInv /\ [PaceNext]_pacing => PaceInv'
<1>. SUFFICES ASSUME \A g \in Gaps : g <= Window + 1, PaceInv, [PaceNext]_pacing PROVE PaceInv'
  OBVIOUS
<1>. USE PaceAssumption
<1>t. PaceTypeOK /\ LogOfTaken /\ Paced /\ gap <= Window + 1
      /\ \A a \in Asker : asker[a].pc = "asking" => asker[a].limit > 0
  BY DEF PaceInv
<1>p. /\ Purged \in Seq(Nat) /\ Len(Purged) <= Len(log)
      /\ \A i \in 1 .. Len(Purged) : Purged[i] = log[Len(log) - Len(Purged) + i]
      /\ \A j \in 1 .. Len(log) - Len(Purged) : now - log[j] > Window
      /\ Purged # << >> => now - Head(Purged) <= Window
  BY <1>t, PurgedIs
\* The tokens that the purged log leaves out are too old.
<1>o. /\ Len(Purged) <= Len(taken)
      /\ \A i \in 1 .. Len(Purged) : Purged[i] = taken[Len(taken) - Len(Purged) + i].at
      /\ \A j \in 1 .. Len(taken) - Len(Purged) : now - taken[j].at > Window
  <2>1. Len(taken) \in Nat /\ Len(log) \in Nat /\ Len(Purged) \in Nat /\ Len(log) <= Len(taken)
    BY <1>t, <1>p DEF PaceTypeOK, LogOfTaken
  <2>2. ASSUME NEW i \in 1 .. Len(Purged)
        PROVE  Purged[i] = taken[Len(taken) - Len(Purged) + i].at
    <3>1. Len(log) - Len(Purged) + i \in 1 .. Len(log)
      BY <2>1, <1>p
    <3>2. log[Len(log) - Len(Purged) + i] = taken[Len(taken) - Len(log) + (Len(log) - Len(Purged) + i)].at
      BY <3>1, <1>t DEF LogOfTaken
    <3>3. Len(taken) - Len(log) + (Len(log) - Len(Purged) + i) = Len(taken) - Len(Purged) + i
      BY <2>1
    <3>. QED BY <3>2, <3>3, <1>p
  <2>3. ASSUME NEW j \in 1 .. Len(taken) - Len(Purged)
        PROVE  now - taken[j].at > Window
    <3>1. CASE j <= Len(taken) - Len(log)
      BY <3>1, <2>1, <1>t DEF LogOfTaken
    <3>2. CASE ~ (j <= Len(taken) - Len(log))
      <4>. DEFINE i == j - (Len(taken) - Len(log))
      <4>1. i \in 1 .. Len(log) - Len(Purged) /\ i \in 1 .. Len(log) /\ Len(taken) - Len(log) + i = j
        BY <3>2, <2>1, <1>p
      <4>. HIDE DEF i
      <4>2. now - log[i] > Window /\ log[i] = taken[j].at
        BY <4>1, <1>p, <1>t DEF LogOfTaken
      <4>. QED BY <4>2
    <3>. QED BY <3>1, <3>2
  <2>. QED BY <2>1, <2>2, <2>3, <1>p
<1>1. ASSUME NEW a \in Asker, Come(a) PROVE PaceInv'
  <2>1. asker' = [asker EXCEPT ![a] = IF rpm <= 0 THEN Through ELSE Asking]
        /\ UNCHANGED << now, log, rpm, gap, taken, renewed >>
    BY <1>1 DEF Come
  <2>2. PaceTypeOK' /\ \A b \in Asker : asker'[b].pc = "asking" => asker'[b].limit > 0
    BY <2>1, <1>t DEF PaceTypeOK, Through, Asking
  <2>. QED BY <2>1, <2>2, <1>t DEF PaceInv, LogOfTaken, Paced
<1>2. ASSUME NEW a \in Asker, TakeToken(a) PROVE PaceInv'
  <2>. DEFINE new == [at |-> now, limit |-> asker[a].limit, gap |-> gap]
  <2>0. PICK m : m = Len(taken)
    OBVIOUS
  <2>1. /\ asker[a].pc = "asking" /\ Wait(a, Purged) = 0
        /\ log' = Append(Purged, now) /\ taken' = Append(taken, new)
        /\ asker' = [asker EXCEPT ![a] = Through]
        /\ UNCHANGED << now, rpm, gap, renewed >>
    BY <1>2 DEF TakeToken, Awake
  <2>2. new \in Taken /\ asker[a].limit \in Int /\ asker[a].limit > 0 /\ gap \in Nat /\ now \in Nat /\ m \in Nat
        /\ Len(Purged) \in Nat /\ taken \in Seq(Taken)
    BY <2>0, <2>1, <1>t, <1>p DEF PaceTypeOK, Taken
  <2>3. PaceTypeOK' /\ \A b \in Asker : asker'[b].pc = "asking" => asker'[b].limit > 0
    BY <2>0, <2>1, <2>2, <1>t, <1>p DEF PaceTypeOK, Through
  <2>4. /\ taken' \in Seq(Taken) /\ Len(taken') = m + 1 /\ taken'[m + 1] = new
        /\ \A j \in 1 .. m : taken'[j] = taken[j] /\ taken[j] \in Taken
    BY <2>0, <2>1, <2>2
  <2>5. /\ Len(log') = Len(Purged) + 1 /\ log'[Len(Purged) + 1] = now
        /\ \A i \in 1 .. Len(Purged) : log'[i] = Purged[i]
    BY <2>0, <2>1, <2>2, <1>p
  <2>6. GapLeft(Purged) <= 0 /\ WindowLeft(Purged, asker[a].limit) <= 0
    <3>1. GapLeft(Purged) \in Int
      BY <2>0, <2>2, <1>p DEF GapLeft, MaxOf, Last
    <3>2. WindowLeft(Purged, asker[a].limit) \in Int
      <4>1. CASE Len(Purged) >= asker[a].limit
        <5>1. Purged # << >>
          BY <4>1, <2>0, <2>2
        <5>2. Head(Purged) \in Nat
          BY <5>1, <1>p
        <5>. QED BY <5>2, <2>0, <2>2 DEF WindowLeft
      <4>2. CASE ~ (Len(Purged) >= asker[a].limit)
        BY <4>2 DEF WindowLeft
      <4>. QED BY <4>1, <4>2
    <3>. QED BY <3>1, <3>2, <2>1 DEF Wait, MaxOf
  <2>7. Len(Purged) < asker[a].limit
    <3>. SUFFICES ASSUME Len(Purged) >= asker[a].limit PROVE FALSE
      BY <2>0, <2>2
    <3>1. Purged # << >>
      BY <2>0, <2>2
    <3>2. Head(Purged) \in Nat /\ now - Head(Purged) <= Window
      BY <3>1, <1>p
    <3>. QED BY <3>2, <2>0, <2>2, <2>6 DEF WindowLeft
  <2>8. LogOfTaken'
    <3>1. Len(taken') - Len(log') = m - Len(Purged) /\ Len(log') <= Len(taken')
      BY <2>0, <2>2, <2>4, <2>5, <1>o
    <3>2. ASSUME NEW i \in 1 .. Len(log') PROVE log'[i] = taken'[Len(taken') - Len(log') + i].at
      <4>1. CASE i = Len(Purged) + 1
        BY <4>1, <3>1, <2>0, <2>2, <2>4, <2>5
      <4>2. CASE i # Len(Purged) + 1
        <5>1. i \in 1 .. Len(Purged)
          BY <4>2, <2>0, <2>2, <2>5
        <5>2. m - Len(Purged) + i \in 1 .. m
          BY <5>1, <2>0, <2>2, <1>o
        <5>3. Len(taken') - Len(log') + i = m - Len(Purged) + i
          BY <3>1
        <5>4. log'[i] = Purged[i] /\ taken'[m - Len(Purged) + i] = taken[m - Len(Purged) + i]
          BY <5>1, <5>2, <2>4, <2>5
        <5>5. Purged[i] = taken[m - Len(Purged) + i].at
          BY <5>1, <2>0, <1>o
        <5>. QED BY <5>3, <5>4, <5>5
      <4>. QED BY <4>1, <4>2
    <3>3. ASSUME NEW j \in 1 .. Len(taken') - Len(log') PROVE now' - taken'[j].at > Window
      <4>1. j \in 1 .. m - Len(Purged) /\ j \in 1 .. m
        BY <3>1, <2>0, <2>2
      <4>. QED BY <4>1, <2>1, <2>4, <1>o
    <3>. QED BY <3>1, <3>2, <3>3 DEF LogOfTaken
  <2>9. Paced'
    <3>. DEFINE InWindow(k) == {j \in 1 .. k : taken[k].at - taken[j].at <= Window}
    <3>1. ASSUME NEW k \in 1 .. m
          PROVE  /\ Cardinality(InWindow(k))' <= taken'[k].limit
                 /\ k > 1 => taken'[k].at - taken'[k - 1].at >= taken'[k].gap
      <4>1. taken'[k] = taken[k] /\ \A j \in 1 .. k : taken'[j] = taken[j]
        BY <2>0, <2>2, <2>4
      <4>2. InWindow(k)' = InWindow(k)
        BY <4>1
      <4>3. k \in DOMAIN taken
        BY <2>0, <2>2
      <4>4. k > 1 => k - 1 \in 1 .. k
        BY <2>0, <2>2
      <4>. QED BY <4>1, <4>2, <4>3, <4>4, <1>t DEF Paced
    <3>2. Cardinality(InWindow(m + 1)') <= asker[a].limit
      <4>. DEFINE lo == m - Len(Purged) + 1
      <4>1. InWindow(m + 1)' \in SUBSET (lo .. m + 1)
        <5>1. ASSUME NEW j \in 1 .. m + 1, taken'[m + 1].at - taken'[j].at <= Window, j < lo
              PROVE  FALSE
          <6>1. j \in 1 .. m - Len(Purged) /\ j \in 1 .. m
            BY <2>0, <2>2, <5>1
          <6>2. now - taken[j].at > Window
            BY <6>1, <2>0, <1>o
          <6>3. taken'[j] = taken[j] /\ taken[j] \in Taken
            BY <6>1, <2>4
          <6>4. taken[j].at \in Nat
            BY <6>3 DEF Taken
          <6>5. taken'[m + 1].at = now
            BY <2>4
          <6>. QED BY <6>2, <6>3, <6>4, <6>5, <5>1, <2>0, <2>2
        <5>2. ASSUME NEW j \in 1 .. m + 1, taken'[m + 1].at - taken'[j].at <= Window
              PROVE  j \in lo .. m + 1
          BY <5>1, <5>2, <2>0, <2>2, <1>o
        <5>. QED BY <5>2
      <4>2. IsFiniteSet(lo .. m + 1) /\ Cardinality(lo .. m + 1) = Len(Purged) + 1
        <5>1. lo \in Int /\ m + 1 \in Int /\ lo <= m + 1 /\ (m + 1) - lo + 1 = Len(Purged) + 1
          BY <2>0, <2>2, <1>o
        <5>. HIDE DEF lo
        <5>2. ASSUME NEW a1 \in Int, NEW b1 \in Int, a1 <= b1
              PROVE  IsFiniteSet(a1 .. b1) /\ Cardinality(a1 .. b1) = b1 - a1 + 1
          BY <5>2, FS_Interval
        <5>3. IsFiniteSet(lo .. m + 1) /\ Cardinality(lo .. m + 1) = (m + 1) - lo + 1
          <6>1. PICK l, h : l = lo /\ h = m + 1
            OBVIOUS
          <6>2. l \in Int /\ h \in Int /\ l <= h
            BY <5>1, <6>1
          <6>3. IsFiniteSet(l .. h) /\ Cardinality(l .. h) = h - l + 1
            BY <5>2, <6>2
          <6>4. (lo .. m + 1) = (l .. h)
            BY <6>1, Zenon
          <6>5. (m + 1) - lo + 1 = h - l + 1
            BY <6>1, Zenon
          <6>. QED BY <6>3, <6>4, <6>5, Zenon
        <5>. QED BY <5>1, <5>3
      <4>3. Cardinality(InWindow(m + 1)') <= Cardinality(lo .. m + 1)
            /\ Cardinality(InWindow(m + 1)') \in Nat
        BY <4>1, <4>2, FS_Subset, FS_CardinalityType
      <4>. QED BY <4>2, <4>3, <2>0, <2>2, <2>7
    <3>3. m + 1 > 1 => taken'[m + 1].at - taken'[m].at >= gap
      <4>. SUFFICES ASSUME m >= 1 PROVE now - taken[m].at >= gap
        BY <2>0, <2>2, <2>4
      <4>0. taken[m].at \in Nat
        BY <2>0, <2>2, <2>4 DEF Taken
      <4>1. CASE Len(Purged) = 0
        BY <4>0, <4>1, <1>o, <1>t, <2>0, <2>2
      <4>2. CASE Len(Purged) > 0
        <5>1. Purged # << >> /\ Last(Purged) = Purged[Len(Purged)] /\ Purged[Len(Purged)] = taken[m].at
          BY <4>2, <2>0, <2>2, <1>p, <1>o DEF Last
        <5>. QED BY <5>1, <4>0, <2>0, <2>2, <2>6 DEF GapLeft, MaxOf
      <4>. QED BY <4>1, <4>2, <2>0, <2>2
    <3>4. DOMAIN taken' = 1 .. m + 1
      BY <2>0, <2>2, <2>4
    <3>5. ASSUME NEW k \in 1 .. m + 1
          PROVE  /\ Cardinality({j \in 1 .. k : taken'[k].at - taken'[j].at <= Window}) <= taken'[k].limit
                 /\ k > 1 => taken'[k].at - taken'[k - 1].at >= taken'[k].gap
      <4>1. CASE k = m + 1
        <5>1. k - 1 = m /\ (k > 1 => m + 1 > 1)
          BY <4>1, <2>0, <2>2
        <5>2. {j \in 1 .. k : taken'[k].at - taken'[j].at <= Window} = InWindow(m + 1)'
          BY <4>1
        <5>3. taken'[k].limit = asker[a].limit /\ taken'[k].gap = gap
          BY <4>1, <2>4
        <5>. HIDE DEF InWindow, new
        <5>4. Cardinality({j \in 1 .. k : taken'[k].at - taken'[j].at <= Window}) <= taken'[k].limit
          BY <5>2, <5>3, <3>2, Zenon
        <5>5. taken'[k] = taken'[m + 1] /\ taken'[k - 1] = taken'[m] /\ (k > 1 => m + 1 > 1)
          BY <4>1, <5>1
        <5>6. k > 1 => taken'[k].at - taken'[k - 1].at >= gap
          BY <5>5, <3>3, Zenon
        <5>. QED BY <5>3, <5>4, <5>6
      <4>2. CASE k # m + 1
        <5>1. k \in 1 .. m
          BY <4>2, <2>0, <2>2
        <5>. QED BY <5>1, <3>1
      <4>. QED BY <4>1, <4>2
    <3>. QED BY <3>4, <3>5 DEF Paced
  <2>. QED BY <2>1, <2>3, <2>8, <2>9, <1>t DEF PaceInv
<1>3. ASSUME NEW a \in Asker, SleepOn(a) PROVE PaceInv'
  <2>1. /\ asker[a].pc = "asking" /\ Wait(a, Purged) > 0 /\ log' = Purged
        /\ asker' = [asker EXCEPT ![a].wake = now + Wait(a, Purged)]
        /\ UNCHANGED << now, rpm, gap, taken, renewed >>
    BY <1>3 DEF SleepOn, Awake
  <2>2. Wait(a, Purged) \in Int
    <3>1. GapLeft(Purged) \in Int
      BY <1>t, <1>p DEF PaceTypeOK, GapLeft, MaxOf, Last
    <3>2. WindowLeft(Purged, asker[a].limit) \in Int
      <4>0. asker[a].limit \in Int /\ asker[a].limit > 0 /\ now \in Nat /\ Len(Purged) \in Nat
        BY <2>1, <1>t, <1>p DEF PaceTypeOK
      <4>1. CASE Len(Purged) >= asker[a].limit
        <5>1. Purged # << >>
          BY <4>0, <4>1
        <5>2. Head(Purged) \in Nat
          BY <5>1, <1>p
        <5>. QED BY <4>0, <5>2 DEF WindowLeft
      <4>2. CASE ~ (Len(Purged) >= asker[a].limit)
        BY <4>2 DEF WindowLeft
      <4>. QED BY <4>1, <4>2
    <3>. QED BY <3>1, <3>2 DEF Wait, MaxOf
  <2>3. PaceTypeOK' /\ \A b \in Asker : asker'[b].pc = "asking" => asker'[b].limit > 0
    BY <2>1, <2>2, <1>t, <1>p DEF PaceTypeOK
  <2>4. LogOfTaken'
    BY <2>1, <1>o DEF LogOfTaken
  <2>. QED BY <2>1, <2>3, <2>4, <1>t DEF PaceInv, Paced
<1>4. CASE Refresh
  BY <1>4, <1>t DEF Refresh, PaceInv, PaceTypeOK, LogOfTaken, Paced
<1>5. CASE Tick
  <2>1. now' = now + 1 /\ UNCHANGED << log, rpm, gap, asker, taken, renewed >>
    BY <1>5 DEF Tick
  <2>2. PaceTypeOK'
    BY <2>1, <1>t DEF PaceTypeOK
  <2>3. LogOfTaken'
    <3>1. ASSUME NEW j \in 1 .. Len(taken) - Len(log) PROVE now' - taken[j].at > Window
      <4>1. j \in 1 .. Len(taken) /\ taken \in Seq(Taken) /\ now \in Nat
        BY <1>t DEF PaceTypeOK
      <4>2. taken[j].at \in Nat
        <5>1. taken[j] \in Taken
          BY <4>1
        <5>. QED BY <5>1 DEF Taken
      <4>3. now - taken[j].at > Window
        BY <1>t DEF LogOfTaken
      <4>. QED BY <4>1, <4>2, <4>3, <2>1
    <3>. QED BY <3>1, <2>1, <1>t DEF LogOfTaken
  <2>. QED BY <2>1, <2>2, <2>3, <1>t DEF PaceInv, Paced
<1>6. CASE UNCHANGED pacing
  BY <1>6, <1>t DEF pacing, PaceInv, PaceTypeOK, LogOfTaken, Paced
<1>. QED BY <1>1, <1>2, <1>3, <1>4, <1>5, <1>6 DEF PaceNext

\* For any number of requests, any limits and settings that change at any time,
\* tokens are never too many in a window, nor too close: as long as the gap set
\* is not above the window, past which the limiter forgets the last token.
THEOREM TokensPaced == (\A g \in Gaps : g <= Window + 1) => (PaceSpec => []Paced)
<1>. SUFFICES ASSUME \A g \in Gaps : g <= Window + 1 PROVE PaceSpec => []Paced
  OBVIOUS
<1>1. PaceInit => PaceInv
  BY InitPace
<1>2. PaceInv /\ [PaceNext]_pacing => PaceInv'
  BY PaceStep
<1>3. PaceInv => Paced
  BY DEF PaceInv
<1>. QED BY <1>1, <1>2, <1>3, PTL DEF PaceSpec

-------------------------------------------------------------------------------
(* Requests for grids.                                                     *)

RankOf(S, f, c) == Cardinality({d \in S : f[d] <= f[c]})

\* The elements of a finite set that differ in a number can be counted off in its order.
LEMMA CountedOff ==
  ASSUME NEW S, IsFiniteSet(S), NEW f \in [S -> Int], \A c, d \in S : f[c] = f[d] => c = d
  PROVE  /\ \A c \in S : RankOf(S, f, c) \in 1 .. Cardinality(S)
         /\ \A b, c \in S : RankOf(S, f, b) = RankOf(S, f, c) => b = c
         /\ \A i \in 1 .. Cardinality(S) : \E c \in S : RankOf(S, f, c) = i
<1>. DEFINE upto(c) == {d \in S : f[d] <= f[c]}
            rank == [c \in S |-> Cardinality(upto(c))]
            n == Cardinality(S)
<1>0. n \in Nat
  BY FS_CardinalityType
<1>1. \A c \in S : f[c] \in Int
  OBVIOUS
<1>2. ASSUME NEW c \in S PROVE IsFiniteSet(upto(c)) /\ rank[c] = Cardinality(upto(c)) /\ rank[c] \in 1 .. n
  <2>1. upto(c) \in SUBSET S /\ c \in upto(c)
    BY <1>1
  <2>. HIDE DEF upto
  <2>2. IsFiniteSet(upto(c)) /\ Cardinality(upto(c)) \in Nat /\ Cardinality(upto(c)) <= n
    BY <2>1, FS_Subset, FS_CardinalityType
  <2>3. Cardinality(upto(c)) # 0
    BY <2>1, <2>2, FS_EmptySet
  <2>. QED BY <2>2, <2>3, <1>0
<1>3. ASSUME NEW b \in S, NEW c \in S, f[b] < f[c] PROVE rank[b] < rank[c]
  <2>1. upto(b) \in SUBSET upto(c) /\ c \in upto(c) /\ c \notin upto(b)
    BY <1>1, <1>3
  <2>2. IsFiniteSet(upto(c)) /\ rank[c] = Cardinality(upto(c)) /\ rank[b] = Cardinality(upto(b))
    BY <1>2
  <2>3. rank[b] \in 1 .. n /\ rank[c] \in 1 .. n
    BY <1>2
  <2>. HIDE DEF upto, rank
  <2>4. Cardinality(upto(b)) <= Cardinality(upto(c)) /\ Cardinality(upto(b)) # Cardinality(upto(c))
    BY <2>1, <2>2, FS_Subset
  <2>. QED BY <2>2, <2>3, <2>4
<1>4. ASSUME NEW b \in S, NEW c \in S, rank[b] = rank[c] PROVE b = c
  <2>0. rank[b] \in 1 .. n
    BY <1>2
  <2>1. rank[b] \in Int
    <3>. HIDE DEF rank, n
    <3>. QED BY <2>0
  <2>. HIDE DEF rank
  <2>2. ~(f[b] < f[c]) /\ ~(f[c] < f[b])
    BY <2>1, <1>3, <1>4
  <2>. QED BY <2>2, <1>1
<1>5. \A i \in 1 .. n : \E c \in S : rank[c] = i
  <2>1. rank \in [S -> 1 .. n]
    BY <1>2
  <2>. HIDE DEF rank
  <2>. DEFINE image == {rank[c] : c \in S}
  <2>2. rank \in Bijection(S, image)
    BY <2>1, <1>4 DEF Bijection, Injection, Surjection, IsInjective
  <2>3. IsFiniteSet(image) /\ Cardinality(image) = n
    <3>. HIDE DEF image
    <3>. QED BY <2>2, FS_Bijection DEF ExistsBijection
  <2>4. image \in SUBSET (1 .. n)
    BY <2>1
  <2>5. IsFiniteSet(1 .. n) /\ Cardinality(1 .. n) = n
    BY <1>0, FS_Interval
  <2>. HIDE DEF image
  <2>6. image = 1 .. n
    BY <2>3, <2>4, <2>5, FS_Subset
  <2>. QED BY <2>6 DEF image
<1>6. \A c \in S : rank[c] = RankOf(S, f, c)
  BY DEF RankOf
<1>7. \A c \in S : rank[c] \in 1 .. n
  BY <1>2
<1>. HIDE DEF rank, n
<1>. QED BY <1>4, <1>5, <1>6, <1>7 DEF n

-------------------------------------------------------------------------------
(* Grids. *)

Broken == segments \in SUBSET (1 .. Scenes)

LEMMA GroupEndIs ==
  ASSUME GridAssumption, Broken, NEW g \in 1 .. Scenes
  PROVE  /\ GroupEnd(g) \in g .. Scenes
         /\ GroupEnd(g) + 1 \in segments \union {Scenes + 1}
         /\ \A s \in g + 1 .. GroupEnd(g) : s \notin segments
<1>. DEFINE R == {s \in segments \union {Scenes + 1} : s > g}
<1>0. Scenes \in Nat
  BY DEF GridAssumption
<1>1. R \in SUBSET (1 .. Scenes + 1) /\ Scenes + 1 \in R
  <2>1. ASSUME NEW s \in R PROVE s \in 1 .. Scenes + 1
    BY <1>0 DEF Broken
  <2>2. Scenes + 1 > g
    BY <1>0
  <2>. QED BY <2>1, <2>2
<1>2. PICK e \in R : \A t \in R : e <= t
  <2>. HIDE DEF R
  <2>1. Scenes + 1 \in Nat
    BY <1>0
  <2>. QED BY <1>1, <2>1, LeastNumber
<1>3. e - 1 \in g .. Scenes /\ (e - 1) + 1 \in segments \union {Scenes + 1}
  BY <1>0, <1>1, <1>2
<1>4. \A s \in g + 1 .. e - 1 : s \notin segments
  BY <1>0, <1>1, <1>2
<1>. HIDE DEF R
<1>. QED BY <1>3, <1>4 DEF GroupEnd

Pieces(w) == UNION {Starts(g) \X {g} : g \in Groups(w)}

LEMMA Cells ==
  ASSUME NEW n \in Nat
  PROVE  CellCount(n) \in {4, 6, 9} /\ (n <= 9 => n <= CellCount(n))
BY DEF CellCount

\* The chunks of a group are intervals of at most nine scenes that cut it up.
LEMMA GroupCut ==
  ASSUME GridAssumption, Broken, NEW g \in 1 .. Scenes
  PROVE  /\ \A a \in Starts(g) :
              /\ a \in g .. GroupEnd(g)
              /\ \E b \in a .. GroupEnd(g) : Chunk(g, a) = a .. b /\ b <= a + 8
         /\ \A s \in g .. GroupEnd(g) : \E a \in Starts(g) : s \in Chunk(g, a)
         /\ \A a, b \in Starts(g) : a # b => Chunk(g, a) \cap Chunk(g, b) = {}
<1>. DEFINE e == GroupEnd(g)
            n == e - g + 1
            c == CellCount(n)
<1>1. g \in Int /\ e \in Int /\ g <= e /\ n \in Nat /\ n >= 1
  <2>1. e \in g .. Scenes /\ Scenes \in Nat
    BY GroupEndIs DEF GridAssumption
  <2>. HIDE DEF e
  <2>. QED BY <2>1
<1>2. c \in {4, 6, 9}
  <2>. HIDE DEF n
  <2>. QED BY <1>1, Cells
<1>3. Starts(g) = {g + k * c : k \in 0 .. (n - 1) \div c}
  BY DEF Starts
<1>4. \A a : Chunk(g, a) = a .. IF a + c - 1 < e THEN a + c - 1 ELSE e
  BY DEF Chunk
<1>. HIDE DEF c
<1>5. ASSUME NEW k \in 0 .. (n - 1) \div c PROVE g + k * c \in g .. e
  BY <1>1, <1>2
<1>6. ASSUME NEW s \in g .. e
      PROVE  \E k \in 0 .. (n - 1) \div c : g + k * c <= s /\ s <= g + k * c + c - 1
  <2>. DEFINE k == (s - g) \div c
  <2>1. k \in 0 .. (n - 1) \div c /\ g + k * c <= s /\ s <= g + k * c + c - 1
    BY <1>1, <1>2
  <2>. QED BY <2>1
<1>7. ASSUME NEW k \in 0 .. (n - 1) \div c, NEW m \in 0 .. (n - 1) \div c, k < m
      PROVE  g + k * c + c - 1 < g + m * c
  <2>1. k \in Int /\ m \in Int
    BY <1>1, <1>2
  <2>. QED BY <2>1, <1>1, <1>2, <1>7
<1>. HIDE DEF n, e
<1>8. ASSUME NEW a \in Starts(g)
      PROVE  a \in g .. e /\ \E b \in a .. e : Chunk(g, a) = a .. b /\ b <= a + 8
  <2>1. a \in g .. e
    BY <1>3, <1>5
  <2>2. Chunk(g, a) = a .. IF a + c - 1 < e THEN a + c - 1 ELSE e
    BY <1>4
  <2>3. (IF a + c - 1 < e THEN a + c - 1 ELSE e) \in a .. e /\ (IF a + c - 1 < e THEN a + c - 1 ELSE e) <= a + 8
    BY <2>1, <1>1, <1>2
  <2>. QED BY <2>1, <2>2, <2>3
<1>9. ASSUME NEW s \in g .. e PROVE \E a \in Starts(g) : s \in Chunk(g, a)
  <2>1. PICK k \in 0 .. (n - 1) \div c : g + k * c <= s /\ s <= g + k * c + c - 1
    BY <1>6
  <2>2. g + k * c \in Starts(g)
    BY <1>3
  <2>3. g + k * c \in g .. e
    BY <1>5
  <2>4. PICK a : a = g + k * c
    OBVIOUS
  <2>5. s \in a .. IF a + c - 1 < e THEN a + c - 1 ELSE e
    BY <2>1, <2>3, <2>4, <1>1, <1>2
  <2>. QED BY <2>2, <2>4, <2>5, <1>4
<1>10. ASSUME NEW a \in Starts(g), NEW b \in Starts(g), a # b PROVE Chunk(g, a) \cap Chunk(g, b) = {}
  <2>1. PICK k \in 0 .. (n - 1) \div c : a = g + k * c
    BY <1>3
  <2>2. PICK m \in 0 .. (n - 1) \div c : b = g + m * c
    BY <1>3
  <2>3. k # m /\ k \in Int /\ m \in Int
    BY <2>1, <2>2, <1>10, <1>1, <1>2
  <2>4. a + c - 1 < b \/ b + c - 1 < a
    BY <2>1, <2>2, <2>3, <1>7
  <2>5. a \in g .. e /\ b \in g .. e
    BY <1>8
  <2>6. (a .. IF a + c - 1 < e THEN a + c - 1 ELSE e) \cap (b .. IF b + c - 1 < e THEN b + c - 1 ELSE e) = {}
    BY <2>4, <2>5, <1>1, <1>2
  <2>. QED BY <2>6, <1>4
<1>. QED BY <1>8, <1>9, <1>10 DEF e



LEMMA GroupsAre ==
  ASSUME GridAssumption, Broken, NEW w
  PROVE  /\ Groups(w) \in SUBSET (1 .. Scenes)
         /\ \A g, h \in Groups(w) : g # h => (g .. GroupEnd(g)) \cap (h .. GroupEnd(h)) = {}
<1>0. Scenes \in Nat \ {0}
  BY DEF GridAssumption
<1>1. Groups(w) \in SUBSET (1 .. Scenes) /\ Groups(w) \in SUBSET ({1} \union segments)
  <2>1. Groups(w) \in SUBSET ({1} \union segments)
    BY DEF Groups
  <2>2. {1} \union segments \in SUBSET (1 .. Scenes)
    BY <1>0 DEF Broken
  <2>. QED BY <2>1, <2>2
<1>2. ASSUME NEW g \in Groups(w), NEW h \in Groups(w), g < h PROVE GroupEnd(g) < h
  <2>1. h \in segments /\ g \in 1 .. Scenes /\ h \in 1 .. Scenes
    BY <1>1, <1>2
  <2>2. GroupEnd(g) \in g .. Scenes /\ h \notin g + 1 .. GroupEnd(g)
    BY <2>1, GroupEndIs
  <2>. QED BY <2>1, <2>2, <1>2, <1>0
<1>3. ASSUME NEW g \in Groups(w), NEW h \in Groups(w), g # h
      PROVE  (g .. GroupEnd(g)) \cap (h .. GroupEnd(h)) = {}
  <2>1. g \in 1 .. Scenes /\ h \in 1 .. Scenes
    BY <1>1
  <2>2. GroupEnd(g) \in g .. Scenes /\ GroupEnd(h) \in h .. Scenes
    BY <2>1, GroupEndIs
  <2>3. GroupEnd(g) < h \/ GroupEnd(h) < g
    BY <2>1, <1>3, <1>2
  <2>. QED BY <2>1, <2>2, <2>3, <1>0
<1>. QED BY <1>1, <1>3

LEMMA PiecesAre ==
  ASSUME GridAssumption, Broken, NEW w
  PROVE  /\ IsFiniteSet(Pieces(w))
         /\ \A c \in Pieces(w) :
              /\ c[1] \in 1 .. Scenes /\ c[2] \in 1 .. Scenes /\ c[2] \in Groups(w)
              /\ c[1] \in c[2] .. GroupEnd(c[2])
              /\ \E b \in c[1] .. GroupEnd(c[2]) : Chunk(c[2], c[1]) = c[1] .. b /\ b <= c[1] + 8
         /\ \A g \in Groups(w) : \A s \in g .. GroupEnd(g) :
              \E c \in Pieces(w) : s \in Chunk(c[2], c[1])
         /\ \A c, d \in Pieces(w) : c # d => Chunk(c[2], c[1]) \cap Chunk(d[2], d[1]) = {} /\ c[1] # d[1]
<1>0. Scenes \in Nat
  BY DEF GridAssumption
<1>1. Groups(w) \in SUBSET (1 .. Scenes)
  BY GroupsAre
<1>2. ASSUME NEW c \in Pieces(w)
      PROVE  /\ c[2] \in Groups(w) /\ c[1] \in Starts(c[2]) /\ c = << c[1], c[2] >>
  BY DEF Pieces
<1>3. ASSUME NEW g \in Groups(w), NEW a \in Starts(g)
      PROVE  << a, g >> \in Pieces(w)
  BY DEF Pieces
<1>4. ASSUME NEW c \in Pieces(w)
      PROVE  /\ c[1] \in 1 .. Scenes /\ c[2] \in 1 .. Scenes /\ c[2] \in Groups(w)
             /\ c[1] \in c[2] .. GroupEnd(c[2])
             /\ \E b \in c[1] .. GroupEnd(c[2]) : Chunk(c[2], c[1]) = c[1] .. b /\ b <= c[1] + 8
  <2>1. c[2] \in 1 .. Scenes /\ c[2] \in Groups(w) /\ c[1] \in Starts(c[2])
    BY <1>1, <1>2
  <2>2. GroupEnd(c[2]) \in c[2] .. Scenes
    BY <2>1, GroupEndIs
  <2>3. c[1] \in c[2] .. GroupEnd(c[2]) /\ \E b \in c[1] .. GroupEnd(c[2]) : Chunk(c[2], c[1]) = c[1] .. b /\ b <= c[1] + 8
    BY <2>1, GroupCut
  <2>4. c[1] \in 1 .. Scenes
    BY <2>1, <2>2, <2>3, <1>0
  <2>. QED BY <2>1, <2>3, <2>4
<1>5. IsFiniteSet(Pieces(w))
  <2>1. Pieces(w) \in SUBSET ((1 .. Scenes) \X (1 .. Scenes))
    BY <1>2, <1>4
  <2>2. IsFiniteSet((1 .. Scenes) \X (1 .. Scenes))
    <3>1. IsFiniteSet(1 .. Scenes)
      BY <1>0, FS_Interval
    <3>. QED BY <3>1, FS_Product
  <2>. QED BY <2>1, <2>2, FS_Subset
<1>6. ASSUME NEW g \in Groups(w), NEW s \in g .. GroupEnd(g)
      PROVE  \E c \in Pieces(w) : s \in Chunk(c[2], c[1])
  <2>1. PICK a \in Starts(g) : s \in Chunk(g, a)
    BY <1>1, GroupCut
  <2>2. PICK c : c = << a, g >>
    OBVIOUS
  <2>3. c[1] = a /\ c[2] = g /\ c \in Pieces(w)
    BY <2>2, <1>3
  <2>. QED BY <2>1, <2>3
<1>7. ASSUME NEW c \in Pieces(w), NEW d \in Pieces(w), c # d
      PROVE  Chunk(c[2], c[1]) \cap Chunk(d[2], d[1]) = {}
  <2>1. CASE c[2] = d[2]
    <3>1. c[1] # d[1]
      BY <2>1, <1>2, <1>7
    <3>2. c[2] \in 1 .. Scenes /\ c[1] \in Starts(c[2]) /\ d[1] \in Starts(c[2])
      BY <2>1, <1>1, <1>2
    <3>3. Chunk(c[2], c[1]) \cap Chunk(c[2], d[1]) = {}
      BY <3>1, <3>2, GroupCut
    <3>. QED BY <3>3, <2>1
  <2>2. CASE c[2] # d[2]
    <3>1. (c[2] .. GroupEnd(c[2])) \cap (d[2] .. GroupEnd(d[2])) = {}
      BY <2>2, <1>4, GroupsAre
    <3>2. ASSUME NEW x \in Pieces(w) PROVE Chunk(x[2], x[1]) \in SUBSET (x[2] .. GroupEnd(x[2]))
      <4>1. PICK b \in x[1] .. GroupEnd(x[2]) : Chunk(x[2], x[1]) = x[1] .. b
        BY <1>4
      <4>2. x[1] \in x[2] .. GroupEnd(x[2]) /\ x[2] \in 1 .. Scenes
        BY <1>4
      <4>3. GroupEnd(x[2]) \in x[2] .. Scenes
        BY <4>2, GroupEndIs
      <4>. QED BY <4>1, <4>2, <4>3, <1>0
    <3>3. Chunk(c[2], c[1]) \in SUBSET (c[2] .. GroupEnd(c[2])) /\ Chunk(d[2], d[1]) \in SUBSET (d[2] .. GroupEnd(d[2]))
      BY <3>2
    <3>. QED BY <3>1, <3>3
  <2>. QED BY <2>1, <2>2
<1>8. ASSUME NEW c \in Pieces(w) PROVE c[1] \in Chunk(c[2], c[1])
  <2>1. PICK b \in c[1] .. GroupEnd(c[2]) : Chunk(c[2], c[1]) = c[1] .. b
    BY <1>4
  <2>2. c[1] \in 1 .. Scenes /\ c[2] \in 1 .. Scenes /\ GroupEnd(c[2]) \in c[2] .. Scenes
    BY <1>4, GroupEndIs
  <2>. QED BY <2>1, <2>2, <1>0
<1>9. ASSUME NEW c \in Pieces(w), NEW d \in Pieces(w), c # d PROVE c[1] # d[1]
  <2>1. c[1] \in Chunk(c[2], c[1]) /\ d[1] \in Chunk(d[2], d[1])
    BY <1>8
  <2>2. Chunk(c[2], c[1]) \cap Chunk(d[2], d[1]) = {}
    BY <1>7, <1>9
  <2>. QED BY <2>1, <2>2
<1>. QED BY <1>4, <1>5, <1>6, <1>7, <1>9

\* An interval of at most nine scenes has a cell for each of them.
LEMMA ChainHolds ==
  ASSUME NEW a \in Nat \ {0}, NEW b \in Nat, a <= b, b <= a + 8
  PROVE  {cell \in Range(FrameChain(a .. b)) : cell # 0} = a .. b
<1>. DEFINE n == b - a + 1
            f == FrameChain(a .. b)
<1>1. Cardinality(a .. b) = n /\ n \in 1 .. 9
  BY FS_Interval
<1>2. (CHOOSE s \in a .. b : \A u \in a .. b : s <= u) = a
  <2>1. a \in a .. b /\ \A u \in a .. b : a <= u
    OBVIOUS
  <2>2. \A s \in a .. b : (\A u \in a .. b : s <= u) => s = a
    BY <2>1
  <2>. QED BY <2>1, <2>2
<1>3. f = [cell \in 0 .. CellCount(n) - 1 |-> IF cell < n THEN a + cell ELSE 0]
  <2>1. PICK m, c : m = Cardinality(a .. b) /\ c = CHOOSE s \in a .. b : \A u \in a .. b : s <= u
    OBVIOUS
  <2>2. f = [cell \in 0 .. CellCount(m) - 1 |-> IF cell < m THEN c + cell ELSE 0]
    BY <2>1 DEF FrameChain
  <2>3. m = n /\ c = a
    BY <2>1, <1>1, <1>2
  <2>. QED BY <2>2, <2>3
<1>4. CellCount(n) \in Nat /\ n <= CellCount(n)
  <2>. HIDE DEF n
  <2>. QED BY <1>1, Cells
<1>5. Range(f) = {f[i] : i \in 0 .. CellCount(n) - 1}
  <2>1. DOMAIN f = 0 .. CellCount(n) - 1
    <3>. HIDE DEF f
    <3>. QED BY <1>3
  <2>. QED BY <2>1 DEF Range
<1>. HIDE DEF f
<1>6. ASSUME NEW s \in a .. b PROVE s \in Range(f)
  <2>1. s - a \in 0 .. CellCount(n) - 1 /\ s - a < n /\ a + (s - a) = s
    BY <1>1, <1>4
  <2>2. f[s - a] = s
    BY <2>1, <1>3
  <2>. QED BY <2>1, <2>2, <1>5
<1>7. ASSUME NEW s \in Range(f), s # 0 PROVE s \in a .. b
  <2>1. PICK i \in 0 .. CellCount(n) - 1 : s = f[i]
    BY <1>5
  <2>2. i < n /\ s = a + i
    BY <2>1, <1>3, <1>7
  <2>. QED BY <2>2, <1>4
<1>8. 0 \notin a .. b
  OBVIOUS
<1>9. Range(FrameChain(a .. b)) = Range(f)
  BY DEF f
<1>. QED BY <1>6, <1>7, <1>8, <1>9



Nth(w, i) == CHOOSE c \in Pieces(w) : Cardinality({d \in Pieces(w) : d[1] <= c[1]}) = i

Piece == [scenes : SUBSET (1 .. Scenes), clears : SUBSET (1 .. Scenes)]

LEMMA NthIs ==
  ASSUME GridAssumption, Broken, NEW w
  PROVE  /\ Cardinality(Pieces(w)) \in Nat
         /\ \A i \in 1 .. Cardinality(Pieces(w)) : Nth(w, i) \in Pieces(w)
         /\ \A i, j \in 1 .. Cardinality(Pieces(w)) : i # j => Nth(w, i) # Nth(w, j)
         /\ \A c \in Pieces(w) : \E i \in 1 .. Cardinality(Pieces(w)) : Nth(w, i) = c
<1>. DEFINE S == Pieces(w)
            n == Cardinality(S)
            f == [c \in S |-> c[1]]
            R(c) == Cardinality({d \in S : d[1] <= c[1]})
<1>1. IsFiniteSet(S) /\ n \in Nat
  BY PiecesAre, FS_CardinalityType
<1>2. f \in [S -> Int] /\ \A c, d \in S : f[c] = f[d] => c = d
  <2>1. \A c \in S : c[1] \in Int
    BY PiecesAre
  <2>2. \A c, d \in S : c # d => c[1] # d[1]
    BY PiecesAre
  <2>. HIDE DEF S
  <2>. QED BY <2>1, <2>2
<1>3. \A c \in S : {d \in S : f[d] <= f[c]} = {d \in S : d[1] <= c[1]}
  <2>. HIDE DEF S
  <2>. QED OBVIOUS
<1>5. \A c \in S : R(c) = RankOf(S, f, c)
  BY <1>3 DEF RankOf
<1>6. /\ \A c \in S : R(c) \in 1 .. n
      /\ \A b, c \in S : R(b) = R(c) => b = c
      /\ \A i \in 1 .. n : \E c \in S : R(c) = i
  <2>. HIDE DEF R, S, f
  <2>. QED BY <1>1, <1>2, <1>5, CountedOff
<1>. HIDE DEF f
<1>7. \A i : Nth(w, i) = CHOOSE c \in S : R(c) = i
  BY DEF Nth
<1>. HIDE DEF R, S, n
<1>8. ASSUME NEW i \in 1 .. n PROVE Nth(w, i) \in S /\ R(Nth(w, i)) = i
  <2>1. \E c \in S : R(c) = i
    BY <1>6
  <2>. QED BY <2>1, <1>7
<1>9. ASSUME NEW c \in S PROVE Nth(w, R(c)) = c
  <2>1. R(c) \in 1 .. n
    BY <1>6
  <2>. QED BY <2>1, <1>6, <1>8
<1>10. \A i, j \in 1 .. n : i # j => Nth(w, i) # Nth(w, j)
  BY <1>8
<1>11. \A c \in S : \E i \in 1 .. n : Nth(w, i) = c
  BY <1>9, <1>6
<1>. QED BY <1>1, <1>8, <1>10, <1>11 DEF S, n

\* The plan of a request: each scene of its segments in one chunk, with a cell for it.
LEMMA PlanIs ==
  ASSUME GridAssumption, Broken, NEW w
  PROVE  /\ Plan(w) \in Seq(Piece)
         /\ Groups(w) # {} => Plan(w) # << >>
         /\ \A i, j \in DOMAIN Plan(w) : i # j => Plan(w)[i].scenes \cap Plan(w)[j].scenes = {}
         /\ \A i \in DOMAIN Plan(w) :
              {cell \in Range(FrameChain(Plan(w)[i].scenes)) : cell # 0} = Plan(w)[i].scenes
         /\ \A i \in DOMAIN Plan(w) : Plan(w)[i].scenes \in SUBSET UNION {g .. GroupEnd(g) : g \in Groups(w)}
         /\ \A s \in UNION {g .. GroupEnd(g) : g \in Groups(w)} : \E i \in DOMAIN Plan(w) : s \in Plan(w)[i].scenes
<1>. DEFINE n == Cardinality(Pieces(w))
            P == Plan(w)
            cl(i) == IF Nth(w, i)[1] = Nth(w, i)[2] THEN Nth(w, i)[2] .. GroupEnd(Nth(w, i)[2]) ELSE {}
<1>0. Scenes \in Nat /\ n \in Nat
  BY NthIs DEF GridAssumption
<1>1. P = [i \in 1 .. n |-> [scenes |-> Chunk(Nth(w, i)[2], Nth(w, i)[1]), clears |-> cl(i)]]
  BY DEF Plan, Nth, Pieces
<1>. HIDE DEF P, n, cl
<1>2. ASSUME NEW i \in 1 .. n
      PROVE  /\ P[i] = [scenes |-> Chunk(Nth(w, i)[2], Nth(w, i)[1]), clears |-> cl(i)]
             /\ P[i].scenes = Chunk(Nth(w, i)[2], Nth(w, i)[1])
             /\ Nth(w, i) \in Pieces(w)
  BY <1>1, NthIs DEF n
<1>3. ASSUME NEW i \in 1 .. n
      PROVE  \E a \in 1 .. Scenes, b \in 1 .. Scenes, g \in Groups(w) :
               /\ P[i].scenes = a .. b /\ a <= b /\ b <= a + 8
               /\ a .. b \in SUBSET (g .. GroupEnd(g))
               /\ g .. GroupEnd(g) \in SUBSET (1 .. Scenes)
               /\ g = Nth(w, i)[2]
  <2>1. PICK c \in Pieces(w) : c = Nth(w, i)
    BY <1>2
  <2>2. /\ c[1] \in 1 .. Scenes /\ c[2] \in 1 .. Scenes /\ c[2] \in Groups(w)
        /\ c[1] \in c[2] .. GroupEnd(c[2])
    BY PiecesAre
  <2>3. PICK b \in c[1] .. GroupEnd(c[2]) : Chunk(c[2], c[1]) = c[1] .. b /\ b <= c[1] + 8
    BY PiecesAre
  <2>4. GroupEnd(c[2]) \in c[2] .. Scenes
    BY <2>2, GroupEndIs
  <2>5. b \in 1 .. Scenes /\ c[1] <= b /\ c[1] .. b \in SUBSET (c[2] .. GroupEnd(c[2]))
        /\ c[2] .. GroupEnd(c[2]) \in SUBSET (1 .. Scenes)
    BY <2>2, <2>3, <2>4, <1>0
  <2>6. P[i].scenes = c[1] .. b
    BY <2>1, <2>3, <1>2
  <2>. QED BY <2>1, <2>2, <2>3, <2>5, <2>6
<1>4. P \in Seq(Piece) /\ Len(P) = n /\ DOMAIN P = 1 .. n
  <2>1. ASSUME NEW i \in 1 .. n PROVE P[i] \in Piece
    <3>1. PICK a \in 1 .. Scenes, b \in 1 .. Scenes, g \in Groups(w) :
            /\ P[i].scenes = a .. b
            /\ a .. b \in SUBSET (g .. GroupEnd(g))
            /\ g .. GroupEnd(g) \in SUBSET (1 .. Scenes)
            /\ g = Nth(w, i)[2]
      BY <1>3
    <3>2. P[i].scenes \in SUBSET (1 .. Scenes)
      BY <3>1
    <3>3. cl(i) \in SUBSET (1 .. Scenes)
      BY <3>1 DEF cl
    <3>4. P[i] = [scenes |-> P[i].scenes, clears |-> cl(i)]
      BY <1>2
    <3>. QED BY <3>2, <3>3, <3>4 DEF Piece
  <2>2. DOMAIN P = 1 .. n /\ P = [i \in 1 .. n |-> P[i]]
    BY <1>1
  <2>. QED BY <2>1, <2>2, <1>0, SeqDef, LenProperties
<1>5. Groups(w) # {} => P # << >>
  <2>1. SUFFICES ASSUME Groups(w) # {} PROVE n # 0
    BY <1>4
  <2>2. PICK g \in Groups(w) : TRUE
    BY <2>1
  <2>3. g \in 1 .. Scenes
    BY GroupsAre
  <2>4. g \in g .. GroupEnd(g)
    BY <2>3, GroupEndIs
  <2>5. PICK c \in Pieces(w) : g \in Chunk(c[2], c[1])
    BY <2>4, PiecesAre
  <2>6. PICK i \in 1 .. n : Nth(w, i) = c
    BY NthIs DEF n
  <2>. QED BY <2>6, <1>0
<1>6. ASSUME NEW i \in 1 .. n, NEW j \in 1 .. n, i # j PROVE P[i].scenes \cap P[j].scenes = {}
  <2>1. PICK c \in Pieces(w), d \in Pieces(w) : c = Nth(w, i) /\ d = Nth(w, j) /\ c # d
    BY <1>2, <1>6, NthIs DEF n
  <2>2. Chunk(c[2], c[1]) \cap Chunk(d[2], d[1]) = {}
    BY <2>1, PiecesAre
  <2>. QED BY <2>1, <2>2, <1>2
<1>7. ASSUME NEW i \in 1 .. n
      PROVE  /\ {cell \in Range(FrameChain(P[i].scenes)) : cell # 0} = P[i].scenes
             /\ P[i].scenes \in SUBSET UNION {g .. GroupEnd(g) : g \in Groups(w)}
  <2>1. PICK a \in 1 .. Scenes, b \in 1 .. Scenes, g \in Groups(w) :
               /\ P[i].scenes = a .. b /\ a <= b /\ b <= a + 8
               /\ a .. b \in SUBSET (g .. GroupEnd(g))
    BY <1>3
  <2>2. {cell \in Range(FrameChain(a .. b)) : cell # 0} = a .. b
    BY <2>1, <1>0, ChainHolds
  <2>3. a .. b \in SUBSET UNION {h .. GroupEnd(h) : h \in Groups(w)}
    BY <2>1
  <2>. QED BY <2>1, <2>2, <2>3
<1>8. ASSUME NEW s \in UNION {g .. GroupEnd(g) : g \in Groups(w)}
      PROVE  \E i \in 1 .. n : s \in P[i].scenes
  <2>1. PICK g \in Groups(w) : s \in g .. GroupEnd(g)
    OBVIOUS
  <2>2. PICK c \in Pieces(w) : s \in Chunk(c[2], c[1])
    BY <2>1, PiecesAre
  <2>3. PICK i \in 1 .. n : Nth(w, i) = c
    BY NthIs DEF n
  <2>. QED BY <2>2, <2>3, <1>2
<1>. QED BY <1>4, <1>5, <1>6, <1>7, <1>8 DEF P



GridRecords ==
  [scenes : SUBSET (1 .. Scenes),
   status : {"missing", "pending", "generating", "splitting", "completed", "failed"}]

GridRun ==
  [task : {"none", "queued", "running"},
   pc : {"none", "begun", "loaded", "referring", "generating", "pictured", "splitting", "over"},
   scenes : SUBSET (1 .. Scenes)]

GridOrder ==
  [pc : {"away", "enqueue", "done", "failed"}, listed : {<< >>} \union [Grid -> GridRecords],
   plan : Seq(Piece), grid : Grid \union {0}, made : Seq(SUBSET (1 .. Scenes)),
   wanted : Wanted \union {{}}]

GridTypeOK ==
  /\ Broken
  /\ grids \in [Grid -> GridRecords]
  /\ pictured \in SUBSET Grid
  /\ queue \in [Grid -> GridRun]
  /\ orders \in [Generation \union Regeneration -> GridOrder]
  /\ uprooted \in SUBSET Grid /\ adrift \in SUBSET Grid

\* What is made and what is still planned are the plan.
FollowsPlan(made, plan, wanted) ==
  /\ Len(made) + Len(plan) = Len(Plan(wanted))
  /\ \A i \in 1 .. Len(made) : made[i] = Plan(wanted)[i].scenes
  /\ \A i \in 1 .. Len(plan) : plan[i] = Plan(wanted)[Len(made) + i]

AsPlanned ==
  /\ \A r \in Generation : orders[r].pc # "away" =>
       FollowsPlan(orders[r].made, orders[r].plan, orders[r].wanted)
  /\ \A r \in Generation \union Regeneration : orders[r].pc \in {"away", "done"} => orders[r].plan = << >>
  /\ \A r \in Regeneration : orders[r].plan = << >>

\* Whoever is about to enqueue has a record to enqueue.
OrderHasRecord ==
  \A r \in Generation \union Regeneration : orders[r].pc = "enqueue" =>
    orders[r].grid \in Grid /\ (orders[r].grid \notin uprooted => grids[orders[r].grid] # NoGrid)

TaskHasRecord ==
  \A g \in Grid \ uprooted : queue[g].task # "none" => grids[g] # NoGrid

RunIsTask ==
  \A g \in Grid : queue[g].pc # "none" => queue[g].task # "none"

Illustrated ==
  \A g \in Grid \ uprooted :
    \/ grids[g].status \in {"splitting", "completed"}
    \/ queue[g].pc \in {"pictured", "splitting"}
    => g \in pictured

Awaited(g) == \E r \in Generation \union Regeneration : orders[r].pc = "enqueue" /\ orders[r].grid = g

Served ==
  \A g \in Grid \ adrift : grids[g].status = "pending" =>
    \/ queue[g].task # "none" /\ queue[g].pc # "over"
    \/ Awaited(g)

GridInv ==
  GridTypeOK /\ AsPlanned /\ OrderHasRecord /\ TaskHasRecord /\ RunIsTask /\ Illustrated /\ Served

\* A chunk of the plan is made.
LEMMA PlanFollowed ==
  ASSUME NEW made \in Seq(SUBSET (1 .. Scenes)), NEW plan \in Seq(Piece), plan # << >>, NEW wanted,
         Plan(wanted) \in Seq(Piece), FollowsPlan(made, plan, wanted)
  PROVE  /\ Head(plan) \in Piece /\ Tail(plan) \in Seq(Piece)
         /\ Append(made, Head(plan).scenes) \in Seq(SUBSET (1 .. Scenes))
         /\ FollowsPlan(Append(made, Head(plan).scenes), Tail(plan), wanted)
<1>. DEFINE m == Len(made)
            q == Tail(plan)
            h == Head(plan)
            a == Append(made, h.scenes)
<1>1. h \in Piece /\ q \in Seq(Piece) /\ h = plan[1] /\ Len(plan) \in Nat \ {0} /\ m \in Nat
      /\ Len(q) = Len(plan) - 1 /\ \A i \in 1 .. Len(q) : q[i] = plan[i + 1]
  <2>1. Len(plan) \in Nat /\ Len(plan) # 0 /\ m \in Nat
    BY LenProperties, EmptySeq
  <2>. QED BY <2>1, HeadTailProperties
<1>2. h.scenes \in SUBSET (1 .. Scenes)
  BY <1>1 DEF Piece
<1>3. a \in Seq(SUBSET (1 .. Scenes)) /\ Len(a) = m + 1 /\ a[m + 1] = h.scenes
      /\ \A i \in 1 .. m : a[i] = made[i]
  BY <1>2, AppendProperties
<1>. HIDE DEF q, h, a, m
<1>4. m + Len(plan) = Len(Plan(wanted)) /\ Len(Plan(wanted)) \in Nat
      /\ (\A i \in 1 .. m : made[i] = Plan(wanted)[i].scenes)
      /\ (\A i \in 1 .. Len(plan) : plan[i] = Plan(wanted)[m + i])
  BY LenProperties DEF FollowsPlan, m
<1>0. PICK l, k : l = Len(plan) /\ k = Len(Plan(wanted))
  OBVIOUS
<1>9. l \in Nat \ {0} /\ m \in Nat /\ k \in Nat /\ m + l = k /\ Len(a) = m + 1 /\ Len(q) = l - 1
  BY <1>0, <1>1, <1>3, <1>4
<1>5. Len(a) + Len(q) = Len(Plan(wanted))
  BY <1>0, <1>9
<1>6. ASSUME NEW i \in 1 .. Len(a) PROVE a[i] = Plan(wanted)[i].scenes
  <2>1. CASE i = m + 1
    <3>1. plan[1] = Plan(wanted)[m + 1]
      <4>1. 1 \in 1 .. Len(plan)
        BY <1>0, <1>9
      <4>. QED BY <4>1, <1>4
    <3>. QED BY <3>1, <2>1, <1>1, <1>3
  <2>2. CASE i # m + 1
    <3>1. i \in 1 .. m
      BY <2>2, <1>1, <1>3
    <3>. QED BY <3>1, <1>3, <1>4
  <2>. QED BY <2>1, <2>2
<1>7. ASSUME NEW i \in 1 .. Len(q) PROVE q[i] = Plan(wanted)[Len(a) + i]
  <2>1. i + 1 \in 1 .. Len(plan) /\ m + (i + 1) = Len(a) + i
    BY <1>1, <1>3
  <2>2. q[i] = plan[i + 1] /\ plan[i + 1] = Plan(wanted)[m + (i + 1)]
    BY <2>1, <1>1, <1>4
  <2>. QED BY <2>1, <2>2
<1>8. FollowsPlan(a, q, wanted)
  BY <1>5, <1>6, <1>7 DEF FollowsPlan
<1>. QED BY <1>1, <1>3, <1>8 DEF q, h, a

NewGrid(new) ==
  /\ grids' \in [Grid -> GridRecords] /\ pictured' \in SUBSET pictured /\ uprooted' \in SUBSET Grid
  /\ uprooted \in SUBSET uprooted'
  /\ grids'[new] # NoGrid /\ grids'[new].status = "pending"
  /\ \A g \in Grid : g # new => grids'[g] = grids[g] \/ grids'[g] = NoGrid
  /\ \A g \in Grid \ uprooted' :
       /\ g # new => grids'[g] = grids[g]
       /\ g \in pictured => g \in pictured'

NextOrder(listed, plan, new, made, wanted) ==
  [pc |-> "enqueue", listed |-> listed, plan |-> Tail(plan), grid |-> new,
   made |-> Append(made, Head(plan).scenes), wanted |-> wanted]

Ordered(r, o) == orders' = [orders EXCEPT ![r] = o]

\* What a request does until its next await: a new record, and old ones gone that are
\* uprooted from then on.
LEMMA PlaceIs ==
  ASSUME GridAssumption, GridTypeOK, NEW r, NEW listed \in {<< >>} \union [Grid -> GridRecords],
         NEW plan \in Seq(Piece), Head(plan) \in Piece, NEW made, NEW wanted,
         Place(r, listed, plan, made, wanted)
  PROVE  \E new \in Unused :
           NewGrid(new) /\ Ordered(r, NextOrder(listed, plan, new, made, wanted))
<1>. DEFINE next == Head(plan)
            gone == {g \in DOMAIN listed : Removable(listed[g]) /\ listed[g].scenes \subseteq next.clears}
            new == CHOOSE g \in Unused : \A h \in Unused : g <= h
<1>1. /\ Unused # {}
      /\ grids' = [g \in Grid |-> IF g = new THEN GridRecord(next.scenes, "pending")
                                  ELSE IF g \in gone THEN NoGrid ELSE grids[g]]
      /\ pictured' = pictured \ gone
      /\ uprooted' = uprooted \union
           {g \in gone : grids[g] # listed[g] \/ grids[g].status \notin {"pending", "generating"}}
      /\ orders' = [orders EXCEPT ![r] =
            [pc |-> "enqueue", listed |-> listed, plan |-> Tail(plan), grid |-> new,
             made |-> Append(made, next.scenes), wanted |-> wanted]]
  BY DEF Place
<1>2. new \in Unused
  <2>1. Unused \in SUBSET (1 .. MaxGrids) /\ MaxGrids \in Nat
    BY DEF Unused, Grid, GridAssumption
  <2>2. \E g \in Unused : \A h \in Unused : g <= h
    BY <1>1, <2>1, LeastNumber
  <2>. QED BY <2>2
<1>3. new \in Grid
  BY <1>2 DEF Unused
<1>4. gone \in SUBSET Grid
  <2>1. CASE listed = << >>
    BY <2>1
  <2>2. CASE listed \in [Grid -> GridRecords]
    BY <2>2
  <2>. QED BY <2>1, <2>2
<1>5. gone \in SUBSET uprooted'
  <2>1. ASSUME NEW g \in gone, grids[g] = listed[g] PROVE grids[g].status \notin {"pending", "generating"}
    BY <2>1 DEF Removable
  <2>. QED BY <2>1, <1>1
<1>6. next.scenes \in SUBSET (1 .. Scenes)
  BY DEF Piece
<1>. HIDE DEF new, gone, next
<1>7. PICK fresh : fresh = GridRecord(next.scenes, "pending")
  OBVIOUS
<1>8. fresh \in GridRecords /\ fresh.status = "pending" /\ fresh # NoGrid
  BY <1>6, <1>7 DEF GridRecord, GridRecords, NoGrid
<1>9. NoGrid \in GridRecords
  BY DEF NoGrid, GridRecords
<1>10. grids' = [g \in Grid |-> IF g = new THEN fresh ELSE IF g \in gone THEN NoGrid ELSE grids[g]]
  BY <1>1, <1>7
<1>11. grids \in [Grid -> GridRecords] /\ uprooted \in SUBSET Grid
  BY DEF GridTypeOK
<1>12. grids' \in [Grid -> GridRecords]
  BY <1>8, <1>9, <1>10, <1>11
<1>13. pictured' \in SUBSET pictured /\ uprooted \in SUBSET uprooted' /\ uprooted' \in SUBSET Grid
  BY <1>1, <1>4, <1>11
<1>14. grids'[new] # NoGrid /\ grids'[new].status = "pending"
  BY <1>3, <1>8, <1>10
<1>15. \A g \in Grid : g # new => grids'[g] = grids[g] \/ grids'[g] = NoGrid
  BY <1>10
<1>16. ASSUME NEW g \in Grid \ uprooted'
       PROVE  (g # new => grids'[g] = grids[g]) /\ (g \in pictured => g \in pictured')
  <2>1. g \notin gone
    BY <1>5
  <2>. QED BY <2>1, <1>1, <1>10
<1>17. Ordered(r, NextOrder(listed, plan, new, made, wanted))
  BY <1>1 DEF next, NextOrder, Ordered
<1>18. NewGrid(new)
  BY <1>12, <1>13, <1>14, <1>15, <1>16 DEF NewGrid
<1>. QED BY <1>2, <1>17, <1>18


LEMMA PlanStays == UNCHANGED segments => \A w : Plan(w)' = Plan(w)
<1>. SUFFICES ASSUME UNCHANGED segments PROVE \A w : Plan(w)' = Plan(w)
  OBVIOUS
<1>1. \A first : GroupEnd(first)' = GroupEnd(first)
  BY DEF GroupEnd
<1>2. \A w : Groups(w)' = Groups(w)
  BY <1>1 DEF Groups
<1>3. \A first, start : Starts(first)' = Starts(first) /\ Chunk(first, start)' = Chunk(first, start)
  BY <1>1 DEF Starts, Chunk, CellCount
<1>4. \A w : Pieces(w)' = Pieces(w)
  BY <1>2, <1>3 DEF Pieces
<1>5. \A w, i : Nth(w, i)' = Nth(w, i)
  BY <1>4 DEF Nth
<1>6. SUFFICES ASSUME NEW w PROVE Plan(w)' = Plan(w)
  OBVIOUS
<1>7. Plan(w) = [i \in 1 .. Cardinality(Pieces(w)) |->
                   [scenes |-> Chunk(Nth(w, i)[2], Nth(w, i)[1]),
                    clears |-> IF Nth(w, i)[1] = Nth(w, i)[2] THEN Nth(w, i)[2] .. GroupEnd(Nth(w, i)[2]) ELSE {}]]
  BY DEF Plan, Nth, Pieces
<1>8. Plan(w)' = [i \in 1 .. Cardinality(Pieces(w)') |->
                   [scenes |-> Chunk(Nth(w, i)[2], Nth(w, i)[1])',
                    clears |-> IF Nth(w, i)'[1] = Nth(w, i)'[2]
                               THEN Nth(w, i)'[2] .. GroupEnd(Nth(w, i)[2])' ELSE {}]]
  BY DEF Plan, Nth, Pieces
<1>. QED BY <1>1, <1>3, <1>4, <1>5, <1>7, <1>8

LEMMA InitGrids == GridInit => GridInv
<1>. SUFFICES ASSUME GridInit PROVE GridInv
  OBVIOUS
<1>. USE GridAssumption
<1>1. Broken
  BY DEF GridInit, Broken, GridAssumption
<1>2. PICK old \in OldGrids : grids = [g \in Grid |-> IF g = 1 THEN old ELSE NoGrid]
  BY DEF GridInit
<1>3. old \in GridRecords /\ old.status \notin {"missing", "pending"} /\ NoGrid \in GridRecords
      /\ NoGrid.status = "missing"
  BY DEF GridAssumption, GridRecords, NoGrid
<1>4. 1 \in Grid
  BY DEF GridAssumption, Grid
<1>5. grids \in [Grid -> GridRecords] /\ \A g \in Grid : grids[g].status # "pending"
  BY <1>2, <1>3
<1>6. NoRun \in GridRun
  BY DEF NoRun, GridRun
<1>7. NotAsked \in GridOrder
  <2>1. << >> \in Seq(Piece) /\ << >> \in Seq(SUBSET (1 .. Scenes))
    OBVIOUS
  <2>. QED BY <2>1 DEF NotAsked, GridOrder
<1>8. /\ pictured = {1} /\ queue = [g \in Grid |-> NoRun]
      /\ orders = [r \in Generation \union Regeneration |-> NotAsked]
      /\ uprooted = {} /\ adrift = {}
  BY DEF GridInit
<1>9. GridTypeOK
  BY <1>1, <1>4, <1>5, <1>6, <1>7, <1>8 DEF GridTypeOK
<1>10. \A r \in Generation \union Regeneration : orders[r].pc = "away" /\ orders[r].plan = << >>
  BY <1>8 DEF NotAsked
<1>11. AsPlanned /\ OrderHasRecord
  BY <1>10 DEF AsPlanned, OrderHasRecord
<1>12. \A g \in Grid : queue[g].task = "none" /\ queue[g].pc = "none"
  BY <1>8 DEF NoRun
<1>13. TaskHasRecord /\ RunIsTask /\ Served
  BY <1>5, <1>12 DEF TaskHasRecord, RunIsTask, Served
<1>14. Illustrated
  BY <1>2, <1>3, <1>8, <1>12 DEF Illustrated
<1>. QED BY <1>9, <1>11, <1>13, <1>14 DEF GridInv

\* A request that makes nothing goes on following its plan.
LEMMA OrdersLinger ==
  ASSUME GridTypeOK, AsPlanned, UNCHANGED segments,
         orders' \in [Generation \union Regeneration -> GridOrder],
         \A r \in Generation \union Regeneration :
           /\ orders'[r].made = orders[r].made /\ orders'[r].plan = orders[r].plan
           /\ orders'[r].wanted = orders[r].wanted
           /\ orders[r].pc = "away" => orders'[r].pc = "away" \/ r \notin Generation
           /\ orders'[r].pc \in {"away", "done"} => orders[r].plan = << >>
  PROVE  AsPlanned'
<1>1. ASSUME NEW r \in Generation, orders'[r].pc # "away"
      PROVE  FollowsPlan(orders[r].made, orders[r].plan, orders[r].wanted)'
  <2>1. PICK m, p, w : m = orders[r].made /\ p = orders[r].plan /\ w = orders[r].wanted
    OBVIOUS
  <2>2. m = orders'[r].made /\ p = orders'[r].plan /\ w = orders'[r].wanted
    BY <2>1
  <2>3. FollowsPlan(m, p, w)
    BY <1>1, <2>1 DEF AsPlanned
  <2>4. FollowsPlan(m, p, w)'
    BY <2>3, PlanStays DEF FollowsPlan
  <2>. QED BY <2>2, <2>4
<1>2. \A r \in Generation \union Regeneration : orders'[r].pc \in {"away", "done"} => orders'[r].plan = << >>
  OBVIOUS
<1>3. \A r \in Regeneration : orders'[r].plan = << >>
  BY DEF AsPlanned
<1>. QED BY <1>1, <1>2, <1>3 DEF AsPlanned

\* What a request for grids does until its next await keeps all that is invariant,
\* given that who waited for its last task has it.
LEMMA PlaceKeeps ==
  ASSUME GridInv, NEW r \in Generation \union Regeneration,
         NEW listed \in {<< >>} \union [Grid -> GridRecords],
         NEW plan \in Seq(Piece), plan # << >>, NEW made \in Seq(SUBSET (1 .. Scenes)),
         NEW wanted \in Wanted \union {{}}, FollowsPlan(made, plan, wanted), r \in Generation,
         UNCHANGED segments, Place(r, listed, plan, made, wanted),
         queue' \in [Grid -> GridRun], adrift' \in SUBSET Grid,
         \A g \in Grid :
           \/ queue'[g] = queue[g]
           \/ orders[r].pc = "enqueue" /\ orders[r].grid = g /\ queue[g].pc = "none"
              /\ queue'[g].pc = "none" /\ queue'[g].task = "queued",
         \A g \in Grid \ adrift' :
           \/ g \notin adrift /\ ~(orders[r].pc = "enqueue" /\ orders[r].grid = g)
           \/ queue'[g].task # "none" /\ queue'[g].pc # "over"
  PROVE  GridInv'
<1>. USE GridAssumption
<1>a. /\ GridTypeOK /\ AsPlanned /\ OrderHasRecord /\ TaskHasRecord /\ RunIsTask /\ Illustrated /\ Served
  BY DEF GridInv
<1>b. Plan(wanted) \in Seq(Piece)
  BY <1>a, PlanIs DEF GridTypeOK
<1>c. /\ Head(plan) \in Piece /\ Tail(plan) \in Seq(Piece)
      /\ Append(made, Head(plan).scenes) \in Seq(SUBSET (1 .. Scenes))
      /\ FollowsPlan(Append(made, Head(plan).scenes), Tail(plan), wanted)
  BY <1>b, PlanFollowed
<1>z. PICK new \in Unused :
           NewGrid(new) /\ Ordered(r, NextOrder(listed, plan, new, made, wanted))
  <2>1. Head(plan) \in Piece
    BY <1>c
  <2>2. GridTypeOK
    BY <1>a
  <2>. QED BY <2>1, <2>2, PlaceIs
<1>d. /\ grids' \in [Grid -> GridRecords] /\ pictured' \in SUBSET pictured /\ uprooted' \in SUBSET Grid
      /\ uprooted \in SUBSET uprooted'
      /\ grids'[new] # NoGrid /\ grids'[new].status = "pending"
      /\ \A g \in Grid : g # new => grids'[g] = grids[g] \/ grids'[g] = NoGrid
      /\ \A g \in Grid \ uprooted' :
           /\ g # new => grids'[g] = grids[g]
           /\ g \in pictured => g \in pictured'
  BY <1>z DEF NewGrid
<1>e. new \in Grid /\ grids[new] = NoGrid /\ queue[new] = NoRun
  BY DEF Unused, Grid, GridAssumption
<1>f. PICK o : o = NextOrder(listed, plan, new, made, wanted)
  OBVIOUS
<1>g. o \in GridOrder /\ o.pc = "enqueue" /\ o.grid = new /\ o.plan = Tail(plan) /\ o.wanted = wanted
      /\ o.made = Append(made, Head(plan).scenes)
  BY <1>c, <1>e, <1>f DEF GridOrder, NextOrder
<1>h. orders' = [orders EXCEPT ![r] = o]
  BY <1>z, <1>f DEF Ordered
<1>1. GridTypeOK'
  <2>1. orders' \in [Generation \union Regeneration -> GridOrder]
    BY <1>a, <1>g, <1>h DEF GridTypeOK
  <2>2. Broken' /\ pictured' \in SUBSET Grid
    BY <1>a, <1>d DEF GridTypeOK, Broken
  <2>. QED BY <2>1, <2>2, <1>d DEF GridTypeOK
<1>2. /\ orders'[r] = o
      /\ \A q \in Generation \union Regeneration : q # r => orders'[q] = orders[q]
  BY <1>a, <1>h DEF GridTypeOK
<1>3. AsPlanned'
  <2>1. ASSUME NEW q \in Generation, orders'[q].pc # "away"
        PROVE  FollowsPlan(orders[q].made, orders[q].plan, orders[q].wanted)'
    <3>1. PICK m, p, w : m = orders'[q].made /\ p = orders'[q].plan /\ w = orders'[q].wanted
      OBVIOUS
    <3>2. FollowsPlan(m, p, w)
      <4>1. CASE q = r
        <5>1. m = Append(made, Head(plan).scenes) /\ p = Tail(plan) /\ w = wanted
          BY <4>1, <3>1, <1>2, <1>g
        <5>. QED BY <5>1, <1>c
      <4>2. CASE q # r
        <5>1. m = orders[q].made /\ p = orders[q].plan /\ w = orders[q].wanted /\ orders[q].pc # "away"
          BY <4>2, <3>1, <2>1, <1>2
        <5>. QED BY <5>1, <1>a DEF AsPlanned
      <4>. QED BY <4>1, <4>2
    <3>3. FollowsPlan(m, p, w)'
      BY <3>2, PlanStays DEF FollowsPlan
    <3>. QED BY <3>1, <3>3
  <2>2. r \notin Regeneration
    BY DEF GridAssumption
  <2>3. \A q \in Generation \union Regeneration : orders'[q].pc \in {"away", "done"} => orders'[q].plan = << >>
    BY <1>2, <1>a, <1>g DEF AsPlanned
  <2>4. \A q \in Regeneration : orders'[q].plan = << >>
    BY <1>2, <1>a, <2>2 DEF AsPlanned
  <2>. QED BY <2>1, <2>3, <2>4 DEF AsPlanned
<1>4. OrderHasRecord'
  <2>1. ASSUME NEW q \in Generation \union Regeneration, orders'[q].pc = "enqueue"
        PROVE  orders'[q].grid \in Grid /\ (orders'[q].grid \notin uprooted' => grids'[orders'[q].grid] # NoGrid)
    <3>1. CASE q = r
      BY <3>1, <1>2, <1>d, <1>e, <1>g
    <3>2. CASE q # r
      <4>1. PICK g : g = orders[q].grid
        OBVIOUS
      <4>2. orders'[q].grid = g /\ g \in Grid /\ (g \notin uprooted => grids[g] # NoGrid)
        BY <3>2, <4>1, <2>1, <1>2, <1>a DEF OrderHasRecord
      <4>3. g \notin uprooted' => grids'[g] # NoGrid
        <5>1. CASE g = new
          BY <5>1, <1>d
        <5>2. CASE g # new
          BY <5>2, <4>2, <1>d
        <5>. QED BY <5>1, <5>2
      <4>. QED BY <4>2, <4>3
    <3>. QED BY <3>1, <3>2
  <2>. QED BY <2>1 DEF OrderHasRecord
<1>5. NoRun.task = "none" /\ NoRun.pc = "none"
  BY DEF NoRun
<1>6. TaskHasRecord'
  <2>1. ASSUME NEW g \in Grid \ uprooted', queue'[g].task # "none", g # new PROVE grids'[g] # NoGrid
    <3>1. grids'[g] = grids[g] /\ g \notin uprooted
      BY <1>d, <2>1
    <3>2. CASE queue'[g] = queue[g]
      BY <3>1, <3>2, <2>1, <1>a DEF TaskHasRecord
    <3>3. CASE orders[r].pc = "enqueue" /\ orders[r].grid = g
      BY <3>1, <3>3, <1>a DEF OrderHasRecord
    <3>. QED BY <3>2, <3>3
  <2>. QED BY <2>1, <1>d DEF TaskHasRecord
<1>7. RunIsTask'
  BY <1>a DEF RunIsTask
<1>8. Illustrated'
  <2>1. ASSUME NEW g \in Grid \ uprooted',
               grids'[g].status \in {"splitting", "completed"} \/ queue'[g].pc \in {"pictured", "splitting"}
        PROVE  g \in pictured'
    <3>1. queue'[g].pc = queue[g].pc
      OBVIOUS
    <3>2. g # new
      BY <2>1, <3>1, <1>d, <1>e, <1>5
    <3>3. grids'[g] = grids[g] /\ g \notin uprooted /\ (g \in pictured => g \in pictured')
      BY <3>2, <1>d
    <3>. QED BY <3>1, <3>3, <2>1, <1>a DEF Illustrated
  <2>. QED BY <2>1 DEF Illustrated
<1>9. Served'
  <2>1. ASSUME NEW g \in Grid \ adrift', grids'[g].status = "pending",
               ~(queue'[g].task # "none" /\ queue'[g].pc # "over")
        PROVE  \E q \in Generation \union Regeneration : orders'[q].pc = "enqueue" /\ orders'[q].grid = g
    <3>1. CASE g = new
      BY <3>1, <1>2, <1>g
    <3>2. CASE g # new
      <4>1. grids[g].status = "pending"
        BY <3>2, <2>1, <1>d DEF NoGrid
      <4>2. g \notin adrift /\ ~(orders[r].pc = "enqueue" /\ orders[r].grid = g)
        BY <2>1
      <4>3. queue'[g] = queue[g]
        BY <4>2
      <4>4. PICK q \in Generation \union Regeneration : orders[q].pc = "enqueue" /\ orders[q].grid = g
        BY <4>1, <4>2, <4>3, <2>1, <1>a DEF Served, Awaited
      <4>5. q # r
        BY <4>2, <4>4
      <4>. QED BY <4>4, <4>5, <1>2
    <3>. QED BY <3>1, <3>2
  <2>. QED BY <2>1 DEF Served, Awaited
<1>. QED BY <1>1, <1>3, <1>4, <1>6, <1>7, <1>8, <1>9 DEF GridInv



\* A run that moves on, its record with it.
LEMMA RunKeeps ==
  ASSUME GridInv, UNCHANGED << segments, orders, uprooted >>,
         NEW g \in Grid, NEW run \in GridRun, queue' = [queue EXCEPT ![g] = run],
         grids' \in [Grid -> GridRecords],
         \A h \in Grid : h # g => grids'[h] = grids[h],
         pictured' \in SUBSET Grid, pictured \in SUBSET pictured',
         adrift' \in SUBSET Grid, adrift \in SUBSET adrift',
         g \in uprooted \/ grids'[g] # NoGrid \/ run.task = "none",
         grids[g] = NoGrid \/ grids'[g] # NoGrid,
         run.pc # "none" => run.task # "none",
         g \notin uprooted /\
           (grids'[g].status \in {"splitting", "completed"} \/ run.pc \in {"pictured", "splitting"})
           => g \in pictured',
         g \notin adrift' /\ grids'[g].status = "pending"
           => (run.task # "none" /\ run.pc # "over") \/ Awaited(g)
  PROVE  GridInv'
<1>a. /\ GridTypeOK /\ AsPlanned /\ OrderHasRecord /\ TaskHasRecord /\ RunIsTask /\ Illustrated /\ Served
  BY DEF GridInv
<1>b. queue \in [Grid -> GridRun] /\ orders \in [Generation \union Regeneration -> GridOrder]
  BY <1>a DEF GridTypeOK
<1>c. queue'[g] = run /\ \A h \in Grid : h # g => queue'[h] = queue[h]
  BY <1>b
<1>1. GridTypeOK'
  <2>1. queue' \in [Grid -> GridRun]
    BY <1>b
  <2>. QED BY <2>1, <1>a DEF GridTypeOK, Broken
<1>2. AsPlanned'
  <2>1. \A r \in Generation \union Regeneration : orders[r].pc \in {"away", "done"} => orders[r].plan = << >>
    BY <1>a DEF AsPlanned
  <2>2. orders' = orders /\ segments' = segments
    OBVIOUS
  <2>. QED BY <2>1, <2>2, <1>a, <1>b, OrdersLinger
<1>3. OrderHasRecord'
  <2>1. ASSUME NEW r \in Generation \union Regeneration, orders[r].pc = "enqueue"
        PROVE  orders[r].grid \in Grid /\ (orders[r].grid \notin uprooted => grids'[orders[r].grid] # NoGrid)
    <3>1. PICK h : h = orders[r].grid
      OBVIOUS
    <3>2. h \in Grid /\ (h \notin uprooted => grids[h] # NoGrid)
      BY <2>1, <3>1, <1>a DEF OrderHasRecord
    <3>3. h \notin uprooted => grids'[h] # NoGrid
      <4>1. CASE h = g
        BY <4>1, <3>2
      <4>2. CASE h # g
        BY <4>2, <3>2
      <4>. QED BY <4>1, <4>2
    <3>. QED BY <3>1, <3>2, <3>3
  <2>. QED BY <2>1 DEF OrderHasRecord
<1>4. TaskHasRecord'
  <2>1. ASSUME NEW h \in Grid \ uprooted, queue'[h].task # "none" PROVE grids'[h] # NoGrid
    <3>1. CASE h = g
      BY <3>1, <2>1, <1>c
    <3>2. CASE h # g
      BY <3>2, <2>1, <1>a, <1>c DEF TaskHasRecord
    <3>. QED BY <3>1, <3>2
  <2>. QED BY <2>1 DEF TaskHasRecord
<1>5. RunIsTask'
  BY <1>a, <1>c DEF RunIsTask
<1>6. Illustrated'
  <2>1. ASSUME NEW h \in Grid \ uprooted,
               grids'[h].status \in {"splitting", "completed"} \/ queue'[h].pc \in {"pictured", "splitting"}
        PROVE  h \in pictured'
    <3>1. CASE h = g
      BY <3>1, <2>1, <1>c
    <3>2. CASE h # g
      BY <3>2, <2>1, <1>a, <1>c DEF Illustrated
    <3>. QED BY <3>1, <3>2
  <2>. QED BY <2>1 DEF Illustrated
<1>7. Served'
  <2>1. ASSUME NEW h \in Grid \ adrift', grids'[h].status = "pending"
        PROVE  (queue'[h].task # "none" /\ queue'[h].pc # "over") \/ Awaited(h)
    <3>1. CASE h = g
      BY <3>1, <2>1, <1>c
    <3>2. CASE h # g
      BY <3>2, <2>1, <1>a, <1>c DEF Served
    <3>. QED BY <3>1, <3>2
  <2>. QED BY <2>1 DEF Served, Awaited
<1>. QED BY <1>1, <1>2, <1>3, <1>4, <1>5, <1>6, <1>7 DEF GridInv

LEMMA GridSaved ==
  ASSUME GridInv, UNCHANGED << segments, orders, uprooted, adrift, pictured >>, NEW g \in Grid,
         NEW status \in {"generating", "splitting", "completed", "failed"},
         NEW pc \in {"referring", "generating", "splitting", "over"},
         SaveGrid(g, status, pc), queue[g].pc # "none",
         g \notin uprooted /\ (status \in {"splitting", "completed"} \/ pc = "splitting") => g \in pictured
  PROVE  GridInv'
<1>a. GridTypeOK /\ RunIsTask
  BY DEF GridInv
<1>b. queue \in [Grid -> GridRun] /\ grids \in [Grid -> GridRecords] /\ adrift \in SUBSET Grid /\ pictured \in SUBSET Grid
  BY <1>a DEF GridTypeOK
<1>1. PICK run : run = [queue[g] EXCEPT !.pc = pc]
  OBVIOUS
<1>2. run \in GridRun /\ run.pc = pc /\ run.task = queue[g].task /\ run.task # "none"
  <2>1. queue[g] \in GridRun /\ queue[g].task # "none"
    BY <1>a, <1>b DEF RunIsTask
  <2>. QED BY <2>1, <1>1 DEF GridRun
<1>3. queue' = [queue EXCEPT ![g] = run]
  BY <1>1 DEF SaveGrid
<1>4. PICK saved : saved = GridRecord(queue[g].scenes, status)
  OBVIOUS
<1>5. saved \in GridRecords /\ saved.status = status /\ saved # NoGrid
  <2>1. queue[g].scenes \in SUBSET (1 .. Scenes)
    BY <1>b DEF GridRun
  <2>. QED BY <2>1, <1>4 DEF GridRecord, GridRecords, NoGrid
<1>6. grids' = [grids EXCEPT ![g] = saved]
  BY <1>4 DEF SaveGrid
<1>7. grids' \in [Grid -> GridRecords] /\ grids'[g] = saved /\ \A h \in Grid : h # g => grids'[h] = grids[h]
  BY <1>5, <1>6, <1>b
<1>8. /\ grids'[g] # NoGrid
      /\ g \notin uprooted /\ (grids'[g].status \in {"splitting", "completed"} \/ run.pc \in {"pictured", "splitting"})
           => g \in pictured'
      /\ grids'[g].status # "pending"
      /\ pictured' = pictured /\ adrift' = adrift
  BY <1>2, <1>5, <1>7
<1>. QED BY <1>2, <1>3, <1>7, <1>8, <1>b, RunKeeps

LEMMA RunStep ==
  ASSUME GridInv, NEW g \in Grid,
         \/ ClaimGrid(g) \/ LoadGrid(g) \/ GridNotFound(g) \/ SaveReferences(g) \/ SaveBackend(g)
         \/ ImageArrives(g) \/ SaveSplitting(g) \/ SaveCompleted(g) \/ SaveFailed(g) \/ SettleGrid(g)
         \/ CancelGrid(g)
  PROVE  GridInv'
<1>a. /\ GridTypeOK /\ AsPlanned /\ OrderHasRecord /\ TaskHasRecord /\ RunIsTask /\ Illustrated /\ Served
  BY DEF GridInv
<1>b. queue \in [Grid -> GridRun] /\ grids \in [Grid -> GridRecords] /\ adrift \in SUBSET Grid /\ pictured \in SUBSET Grid
  BY <1>a DEF GridTypeOK
<1>c. queue[g] \in GridRun /\ grids[g] \in GridRecords
  BY <1>b
<1>d. /\ queue[g].pc # "none" => queue[g].task # "none"
      /\ g \notin uprooted /\ queue[g].task # "none" => grids[g] # NoGrid
      /\ g \notin uprooted /\ (grids[g].status \in {"splitting", "completed"} \/ queue[g].pc \in {"pictured", "splitting"})
           => g \in pictured
      /\ g \notin adrift /\ grids[g].status = "pending"
           => (queue[g].task # "none" /\ queue[g].pc # "over") \/ Awaited(g)
  BY <1>a DEF RunIsTask, TaskHasRecord, Illustrated, Served
<1>1. CASE ClaimGrid(g)
  <2>1. PICK run : run = [queue[g] EXCEPT !.task = "running", !.pc = "begun"]
    OBVIOUS
  <2>2. run \in GridRun /\ run.task = "running" /\ run.pc = "begun"
    BY <2>1, <1>c DEF GridRun
  <2>3. queue' = [queue EXCEPT ![g] = run] /\ queue[g].task = "queued"
        /\ UNCHANGED << segments, grids, pictured, orders, uprooted, adrift >>
    BY <1>1, <2>1 DEF ClaimGrid
  <2>4. grids' = grids /\ pictured' = pictured /\ adrift' = adrift /\ UNCHANGED << segments, orders, uprooted >>
    BY <2>3
  <2>5. g \notin uprooted /\ (grids'[g].status \in {"splitting", "completed"} \/ run.pc \in {"pictured", "splitting"})
           => g \in pictured'
    BY <2>2, <2>4, <1>d
  <2>. QED BY <2>2, <2>3, <2>4, <2>5, <1>b, <1>d, RunKeeps
<1>2. CASE LoadGrid(g)
  <2>1. PICK run : run = [queue[g] EXCEPT !.pc = "loaded", !.scenes = grids[g].scenes]
    OBVIOUS
  <2>2. run \in GridRun /\ run.task = queue[g].task /\ run.pc = "loaded"
    BY <2>1, <1>c DEF GridRun, GridRecords
  <2>3. PICK record : record = [grids[g] EXCEPT !.status = "generating"]
    OBVIOUS
  <2>4. record \in GridRecords /\ record.status = "generating" /\ record # NoGrid
    BY <2>3, <1>c DEF GridRecords, NoGrid
  <2>5. /\ queue' = [queue EXCEPT ![g] = run] /\ grids' = [grids EXCEPT ![g] = record] /\ queue[g].pc = "begun"
        /\ pictured' = pictured /\ adrift' = adrift /\ UNCHANGED << segments, orders, uprooted >>
    BY <1>2, <2>1, <2>3, <1>b DEF LoadGrid, RunAt
  <2>6. grids' \in [Grid -> GridRecords] /\ grids'[g] = record /\ \A h \in Grid : h # g => grids'[h] = grids[h]
    BY <2>4, <2>5, <1>b
  <2>. QED BY <2>2, <2>4, <2>5, <2>6, <1>b, <1>d, RunKeeps
<1>3. CASE GridNotFound(g)
  <2>1. PICK run : run = [queue[g] EXCEPT !.pc = "over"]
    OBVIOUS
  <2>2. run \in GridRun /\ run.task = queue[g].task /\ run.pc = "over"
    BY <2>1, <1>c DEF GridRun
  <2>3. /\ queue' = [queue EXCEPT ![g] = run] /\ queue[g].pc = "begun" /\ grids[g] = NoGrid
        /\ grids' = grids /\ pictured' = pictured /\ adrift' = adrift /\ UNCHANGED << segments, orders, uprooted >>
    BY <1>3, <2>1 DEF GridNotFound, RunAt
  <2>4. g \in uprooted /\ grids'[g].status # "pending"
    BY <2>3, <1>d DEF NoGrid
  <2>. QED BY <2>2, <2>3, <2>4, <1>b, <1>d, RunKeeps
<1>4. CASE SaveReferences(g)
  <2>1. SaveGrid(g, "generating", "referring") /\ queue[g].pc # "none"
        /\ UNCHANGED << segments, orders, uprooted, adrift, pictured >>
    BY <1>4 DEF SaveReferences, RunAt
  <2>. QED BY <2>1, GridSaved
<1>5. CASE SaveBackend(g)
  <2>1. SaveGrid(g, "generating", "generating") /\ queue[g].pc # "none"
        /\ UNCHANGED << segments, orders, uprooted, adrift, pictured >>
    BY <1>5 DEF SaveBackend, RunAt
  <2>. QED BY <2>1, GridSaved
<1>6. CASE ImageArrives(g)
  <2>1. PICK run : run = [queue[g] EXCEPT !.pc = "pictured"]
    OBVIOUS
  <2>2. run \in GridRun /\ run.task = queue[g].task /\ run.pc = "pictured"
    BY <2>1, <1>c DEF GridRun
  <2>3. /\ queue' = [queue EXCEPT ![g] = run] /\ queue[g].pc = "generating"
        /\ grids' = grids /\ pictured' = pictured \union {g} /\ adrift' = adrift
        /\ UNCHANGED << segments, orders, uprooted >>
    BY <1>6, <2>1 DEF ImageArrives, RunAt
  <2>4. g \in pictured' /\ pictured \in SUBSET pictured' /\ pictured' \in SUBSET Grid
    BY <2>3, <1>b
  <2>. QED BY <2>2, <2>3, <2>4, <1>b, <1>d, RunKeeps
<1>7. CASE SaveSplitting(g)
  <2>1. SaveGrid(g, "splitting", "splitting") /\ queue[g].pc = "pictured"
        /\ UNCHANGED << segments, orders, uprooted, adrift, pictured >>
    BY <1>7 DEF SaveSplitting, RunAt
  <2>2. g \notin uprooted => g \in pictured
    BY <2>1, <1>d
  <2>. QED BY <2>1, <2>2, GridSaved
<1>8. CASE SaveCompleted(g)
  <2>1. SaveGrid(g, "completed", "over") /\ queue[g].pc = "splitting"
        /\ UNCHANGED << segments, orders, uprooted, adrift, pictured >>
    BY <1>8 DEF SaveCompleted, RunAt
  <2>2. g \notin uprooted => g \in pictured
    BY <2>1, <1>d
  <2>. QED BY <2>1, <2>2, GridSaved
<1>9. CASE SaveFailed(g)
  <2>1. SaveGrid(g, "failed", "over") /\ queue[g].pc # "none"
        /\ UNCHANGED << segments, orders, uprooted, adrift, pictured >>
    BY <1>9 DEF SaveFailed
  <2>. QED BY <2>1, GridSaved
<1>e. NoRun \in GridRun /\ NoRun.task = "none" /\ NoRun.pc = "none"
  BY DEF NoRun, GridRun
<1>10. CASE SettleGrid(g)
  <2>1. /\ queue' = [queue EXCEPT ![g] = NoRun] /\ queue[g].pc = "over"
        /\ grids' = grids /\ pictured' = pictured /\ adrift' = adrift /\ UNCHANGED << segments, orders, uprooted >>
    BY <1>10 DEF SettleGrid, RunAt
  <2>. QED BY <2>1, <1>b, <1>d, <1>e, RunKeeps
<1>11. CASE CancelGrid(g)
  <2>1. /\ queue' = [queue EXCEPT ![g] = NoRun]
        /\ grids' = grids /\ pictured' = pictured /\ adrift' = adrift \union {g}
        /\ UNCHANGED << segments, orders, uprooted >>
    BY <1>11 DEF CancelGrid
  <2>2. g \in adrift' /\ adrift \in SUBSET adrift' /\ adrift' \in SUBSET Grid
    BY <2>1, <1>b
  <2>. QED BY <2>1, <2>2, <1>b, <1>d, <1>e, RunKeeps
<1>. QED BY <1>1, <1>2, <1>3, <1>4, <1>5, <1>6, <1>7, <1>8, <1>9, <1>10, <1>11

\* A request that moves on without making anything; what it leaves is taken care of.
LEMMA OrderKeeps ==
  ASSUME GridInv, UNCHANGED << segments, pictured, uprooted >>,
         orders' \in [Generation \union Regeneration -> GridOrder],
         \A r \in Generation \union Regeneration :
           /\ orders'[r].made = orders[r].made /\ orders'[r].plan = orders[r].plan
           /\ orders'[r].wanted = orders[r].wanted
           /\ orders[r].pc = "away" => orders'[r].pc = "away" \/ r \notin Generation
           /\ orders'[r].pc \in {"away", "done"} => orders[r].plan = << >>
           /\ orders'[r].pc = "enqueue" =>
                orders'[r].grid \in Grid /\ (orders'[r].grid \notin uprooted => grids[orders'[r].grid] # NoGrid),
         grids' \in [Grid -> GridRecords], queue' \in [Grid -> GridRun], adrift' \in SUBSET Grid,
         \A g \in Grid :
           /\ grids[g] # NoGrid => grids'[g] # NoGrid
           /\ grids'[g] = grids[g] \/ grids'[g].status = "pending"
           /\ queue'[g].task # "none" => queue[g].task # "none" \/ (g \notin uprooted => grids[g] # NoGrid)
           /\ queue'[g].pc # "none" => queue'[g].pc = queue[g].pc /\ queue'[g].task # "none",
         \A g \in Grid \ adrift' : grids'[g].status = "pending" =>
           (queue'[g].task # "none" /\ queue'[g].pc # "over") \/ Awaited(g)'
  PROVE  GridInv'
<1>a. /\ GridTypeOK /\ AsPlanned /\ OrderHasRecord /\ TaskHasRecord /\ RunIsTask /\ Illustrated /\ Served
  BY DEF GridInv
<1>1. GridTypeOK'
  BY <1>a DEF GridTypeOK, Broken
<1>2. AsPlanned'
  <2>1. segments' = segments
    OBVIOUS
  <2>. QED BY <2>1, <1>a, OrdersLinger
<1>3. OrderHasRecord'
  BY DEF OrderHasRecord
<1>4. TaskHasRecord'
  BY <1>a DEF TaskHasRecord
<1>5. RunIsTask'
  BY DEF RunIsTask
<1>6. Illustrated'
  <2>1. ASSUME NEW g \in Grid \ uprooted,
               grids'[g].status \in {"splitting", "completed"} \/ queue'[g].pc \in {"pictured", "splitting"}
        PROVE  g \in pictured'
    <3>1. grids[g].status \in {"splitting", "completed"} \/ queue[g].pc \in {"pictured", "splitting"}
      BY <2>1
    <3>. QED BY <3>1, <1>a DEF Illustrated
  <2>. QED BY <2>1 DEF Illustrated
<1>7. Served'
  BY DEF Served
<1>. QED BY <1>1, <1>2, <1>3, <1>4, <1>5, <1>6, <1>7 DEF GridInv

LEMMA GridStep == GridInv /\ [GridNext]_gridding => GridInv'
<1>. SUFFICES ASSUME GridInv, [GridNext]_gridding PROVE GridInv'
  OBVIOUS
<1>. USE GridAssumption
<1>a. /\ GridTypeOK /\ AsPlanned /\ OrderHasRecord /\ TaskHasRecord /\ RunIsTask /\ Illustrated /\ Served
  BY DEF GridInv
<1>b. /\ queue \in [Grid -> GridRun] /\ grids \in [Grid -> GridRecords] /\ adrift \in SUBSET Grid
      /\ pictured \in SUBSET Grid /\ orders \in [Generation \union Regeneration -> GridOrder] /\ Broken
  BY <1>a DEF GridTypeOK
<1>c. \A r \in Generation : orders[r].pc # "away" =>
        FollowsPlan(orders[r].made, orders[r].plan, orders[r].wanted)
  BY <1>a DEF AsPlanned
<1>1. ASSUME NEW r \in Generation, NEW wanted \in Wanted, GenerateGrids(r, wanted) PROVE GridInv'
  <2>1. /\ orders[r].pc = "away" /\ Groups(wanted) # {} /\ Place(r, grids, Plan(wanted), << >>, wanted)
        /\ UNCHANGED << segments, queue, adrift >>
    BY <1>1 DEF GenerateGrids
  <2>2. Plan(wanted) \in Seq(Piece) /\ Plan(wanted) # << >>
    BY <2>1, <1>b, PlanIs
  <2>3. FollowsPlan(<< >>, Plan(wanted), wanted)
    <3>1. Len(Plan(wanted)) \in Nat /\ Len(<< >>) = 0
      BY <2>2, LenProperties, EmptySeq
    <3>2. PICK l : l = Len(Plan(wanted))
      OBVIOUS
    <3>3. 0 + l = l /\ \A i \in 1 .. l : 0 + i = i
      BY <3>1, <3>2
    <3>. QED BY <3>1, <3>2, <3>3 DEF FollowsPlan
  <2>4. << >> \in Seq(SUBSET (1 .. Scenes)) /\ wanted \in Wanted \union {{}}
        /\ grids \in {<< >>} \union [Grid -> GridRecords] /\ r \in Generation \union Regeneration
    BY <1>b
  <2>5. \A g \in Grid : queue'[g] = queue[g]
    BY <2>1
  <2>6. \A g \in Grid \ adrift' : g \notin adrift /\ ~(orders[r].pc = "enqueue" /\ orders[r].grid = g)
    BY <2>1
  <2>7. queue' \in [Grid -> GridRun] /\ adrift' \in SUBSET Grid /\ segments' = segments
    BY <2>1, <1>b
  <2>8. Place(r, grids, Plan(wanted), << >>, wanted)
    BY <2>1
  <2>. QED BY <2>2, <2>3, <2>4, <2>5, <2>6, <2>7, <2>8, PlaceKeeps
<1>2. ASSUME NEW r \in Regeneration, NEW g \in Grid, RegenerateGrid(r, g) PROVE GridInv'
  <2>1. /\ orders[r].pc = "away" /\ grids[g] # NoGrid
        /\ grids' = [grids EXCEPT ![g].status = "pending"]
        /\ orders' = [orders EXCEPT ![r].pc = "enqueue", ![r].grid = g]
        /\ segments' = segments /\ pictured' = pictured /\ queue' = queue /\ uprooted' = uprooted /\ adrift' = adrift
    BY <1>2 DEF RegenerateGrid
  <2>2. PICK o : o = [orders[r] EXCEPT !.pc = "enqueue", !.grid = g]
    OBVIOUS
  <2>3. orders[r] \in GridOrder /\ r \in Generation \union Regeneration /\ r \notin Generation
    BY <1>b DEF GridAssumption
  <2>4. /\ o \in GridOrder /\ o.pc = "enqueue" /\ o.grid = g
        /\ o.made = orders[r].made /\ o.plan = orders[r].plan /\ o.wanted = orders[r].wanted
    BY <2>2, <2>3 DEF GridOrder
  <2>5. orders' = [orders EXCEPT ![r] = o]
    BY <2>1, <2>2, <2>3, <1>b
  <2>6. /\ orders' \in [Generation \union Regeneration -> GridOrder] /\ orders'[r] = o
        /\ \A q \in Generation \union Regeneration : q # r => orders'[q] = orders[q]
    BY <2>3, <2>4, <2>5, <1>b
  <2>7. PICK record : record = [grids[g] EXCEPT !.status = "pending"]
    OBVIOUS
  <2>8. record \in GridRecords /\ record.status = "pending" /\ record # NoGrid
    <3>1. grids[g] \in GridRecords
      BY <1>b
    <3>. QED BY <3>1, <2>7 DEF GridRecords, NoGrid
  <2>9. /\ grids' \in [Grid -> GridRecords] /\ grids'[g] = record
        /\ \A h \in Grid : h # g => grids'[h] = grids[h]
    BY <2>1, <2>7, <2>8, <1>b
  <2>10. \A q \in Generation \union Regeneration :
           /\ orders'[q].made = orders[q].made /\ orders'[q].plan = orders[q].plan
           /\ orders'[q].wanted = orders[q].wanted
           /\ orders[q].pc = "away" => orders'[q].pc = "away" \/ q \notin Generation
           /\ orders'[q].pc \in {"away", "done"} => orders[q].plan = << >>
           /\ orders'[q].pc = "enqueue" =>
                orders'[q].grid \in Grid /\ (orders'[q].grid \notin uprooted => grids[orders'[q].grid] # NoGrid)
    <3>1. ASSUME NEW q \in Generation \union Regeneration, q # r
          PROVE  /\ orders[q].pc \in {"away", "done"} => orders[q].plan = << >>
                 /\ orders[q].pc = "enqueue" =>
                      orders[q].grid \in Grid /\ (orders[q].grid \notin uprooted => grids[orders[q].grid] # NoGrid)
      BY <1>a DEF AsPlanned, OrderHasRecord
    <3>. QED BY <3>1, <2>1, <2>3, <2>4, <2>6
  <2>11. \A h \in Grid :
           /\ grids[h] # NoGrid => grids'[h] # NoGrid
           /\ grids'[h] = grids[h] \/ grids'[h].status = "pending"
           /\ queue'[h].task # "none" => queue[h].task # "none" \/ (h \notin uprooted => grids[h] # NoGrid)
           /\ queue'[h].pc # "none" => queue'[h].pc = queue[h].pc /\ queue'[h].task # "none"
    BY <2>1, <2>8, <2>9, <1>a DEF RunIsTask
  <2>12. ASSUME NEW h \in Grid \ adrift', grids'[h].status = "pending"
         PROVE  (queue'[h].task # "none" /\ queue'[h].pc # "over") \/ Awaited(h)'
    <3>1. CASE h = g
      BY <3>1, <2>3, <2>4, <2>6 DEF Awaited
    <3>2. CASE h # g /\ ~(queue'[h].task # "none" /\ queue'[h].pc # "over")
      <4>1. PICK q \in Generation \union Regeneration : orders[q].pc = "enqueue" /\ orders[q].grid = h
        BY <3>2, <2>1, <2>9, <2>12, <1>a DEF Served, Awaited
      <4>2. orders'[q] = orders[q]
        BY <4>1, <2>1, <2>6
      <4>. QED BY <4>1, <4>2 DEF Awaited
    <3>. QED BY <3>1, <3>2
  <2>13. UNCHANGED << segments, pictured, uprooted >> /\ queue' \in [Grid -> GridRun] /\ adrift' \in SUBSET Grid
    BY <2>1, <1>b
  <2>14. orders' \in [Generation \union Regeneration -> GridOrder] /\ grids' \in [Grid -> GridRecords]
    BY <2>6, <2>9
  <2>. QED BY <2>10, <2>11, <2>12, <2>13, <2>14, OrderKeeps
<1>3. ASSUME NEW r \in Generation \union Regeneration, Enqueued(r) PROVE GridInv'
  <2>. DEFINE g == orders[r].grid
  <2>1. /\ orders[r].pc = "enqueue"
        /\ queue' = IF queue[g].task = "none" THEN [queue EXCEPT ![g].task = "queued"] ELSE queue
        /\ adrift' = IF queue[g].pc = "over" THEN adrift \union {g} ELSE adrift \ {g}
        /\ segments' = segments
    BY <1>3 DEF Enqueued
  <2>2. g \in Grid /\ (g \notin uprooted => grids[g] # NoGrid)
    BY <2>1, <1>a DEF OrderHasRecord
  <2>. HIDE DEF g
  <2>3. queue[g].pc # "none" => queue[g].task # "none"
    BY <2>2, <1>a DEF RunIsTask
  <2>4. /\ queue' \in [Grid -> GridRun] /\ adrift' \in SUBSET Grid
        /\ queue'[g].task # "none" /\ queue'[g].pc = queue[g].pc
        /\ (queue'[g] = queue[g] \/ (queue[g].pc = "none" /\ queue'[g].task = "queued"))
        /\ \A h \in Grid : h # g => queue'[h] = queue[h]
    <3>1. CASE queue[g].task # "none"
      BY <3>1, <2>1, <2>2, <1>b
    <3>2. CASE queue[g].task = "none"
      <4>1. PICK run : run = [queue[g] EXCEPT !.task = "queued"]
        OBVIOUS
      <4>2. queue[g] \in GridRun
        BY <2>2, <1>b
      <4>3. run \in GridRun /\ run.task = "queued" /\ run.pc = queue[g].pc
        BY <4>1, <4>2 DEF GridRun
      <4>4. queue' = [queue EXCEPT ![g] = run]
        BY <4>1, <3>2, <2>1, <1>b
      <4>5. queue[g].pc = "none"
        BY <3>2, <2>3
      <4>. QED BY <4>3, <4>4, <4>5, <2>1, <2>2, <1>b
    <3>. QED BY <3>1, <3>2
  <2>5. CASE orders[r].plan = << >>
    <3>1. orders' = [orders EXCEPT ![r].pc = "done"] /\ grids' = grids /\ pictured' = pictured /\ uprooted' = uprooted
      BY <1>3, <2>5 DEF Enqueued
    <3>2. PICK o : o = [orders[r] EXCEPT !.pc = "done"]
      OBVIOUS
    <3>3. orders[r] \in GridOrder
      BY <1>b
    <3>4. /\ o \in GridOrder /\ o.pc = "done"
          /\ o.made = orders[r].made /\ o.plan = orders[r].plan /\ o.wanted = orders[r].wanted
      BY <3>2, <3>3 DEF GridOrder
    <3>5. /\ orders' \in [Generation \union Regeneration -> GridOrder] /\ orders'[r] = o
          /\ \A q \in Generation \union Regeneration : q # r => orders'[q] = orders[q]
      BY <3>1, <3>2, <3>4, <1>b
    <3>6. \A q \in Generation \union Regeneration :
           /\ orders'[q].made = orders[q].made /\ orders'[q].plan = orders[q].plan
           /\ orders'[q].wanted = orders[q].wanted
           /\ orders[q].pc = "away" => orders'[q].pc = "away" \/ q \notin Generation
           /\ orders'[q].pc \in {"away", "done"} => orders[q].plan = << >>
           /\ orders'[q].pc = "enqueue" =>
                orders'[q].grid \in Grid /\ (orders'[q].grid \notin uprooted => grids[orders'[q].grid] # NoGrid)
      <4>1. ASSUME NEW q \in Generation \union Regeneration, q # r
            PROVE  /\ orders[q].pc \in {"away", "done"} => orders[q].plan = << >>
                   /\ orders[q].pc = "enqueue" =>
                        orders[q].grid \in Grid /\ (orders[q].grid \notin uprooted => grids[orders[q].grid] # NoGrid)
        BY <1>a DEF AsPlanned, OrderHasRecord
      <4>. QED BY <4>1, <2>1, <2>5, <3>4, <3>5
    <3>7. \A h \in Grid :
           /\ grids[h] # NoGrid => grids'[h] # NoGrid
           /\ grids'[h] = grids[h] \/ grids'[h].status = "pending"
           /\ queue'[h].task # "none" => queue[h].task # "none" \/ (h \notin uprooted => grids[h] # NoGrid)
           /\ queue'[h].pc # "none" => queue'[h].pc = queue[h].pc /\ queue'[h].task # "none"
      BY <3>1, <2>2, <2>4, <1>a DEF RunIsTask
    <3>8. ASSUME NEW h \in Grid \ adrift', grids'[h].status = "pending"
          PROVE  (queue'[h].task # "none" /\ queue'[h].pc # "over") \/ Awaited(h)'
      <4>1. CASE h = g
        <5>1. queue[g].pc # "over"
          BY <4>1, <3>8, <2>1
        <5>. QED BY <5>1, <4>1, <2>4
      <4>2. CASE h # g /\ ~(queue'[h].task # "none" /\ queue'[h].pc # "over")
        <5>1. h \notin adrift
          BY <4>2, <3>8, <2>1
        <5>2. PICK q \in Generation \union Regeneration : orders[q].pc = "enqueue" /\ orders[q].grid = h
          BY <5>1, <4>2, <3>1, <3>8, <2>4, <1>a DEF Served, Awaited
        <5>3. q # r
          BY <5>2, <4>2 DEF g
        <5>. QED BY <5>2, <5>3, <3>5 DEF Awaited
      <4>. QED BY <4>1, <4>2
    <3>9. UNCHANGED << segments, pictured, uprooted >> /\ grids' \in [Grid -> GridRecords]
      BY <3>1, <2>1, <1>b
    <3>. QED BY <3>5, <3>6, <3>7, <3>8, <3>9, <2>4, OrderKeeps
  <2>6. CASE orders[r].plan # << >>
    <3>1. r \in Generation
      BY <2>6, <1>a DEF AsPlanned
    <3>2. PICK o : o = orders[r]
      OBVIOUS
    <3>3. /\ o.listed \in {<< >>} \union [Grid -> GridRecords] /\ o.plan \in Seq(Piece)
          /\ o.made \in Seq(SUBSET (1 .. Scenes)) /\ o.wanted \in Wanted \union {{}}
      BY <3>2, <1>b DEF GridOrder
    <3>4. FollowsPlan(o.made, o.plan, o.wanted)
      BY <3>1, <3>2, <2>1, <1>c
    <3>5. Place(r, o.listed, o.plan, o.made, o.wanted)
      BY <1>3, <2>6, <3>2 DEF Enqueued
    <3>6. \A h \in Grid :
           \/ queue'[h] = queue[h]
           \/ orders[r].pc = "enqueue" /\ orders[r].grid = h /\ queue[h].pc = "none"
              /\ queue'[h].pc = "none" /\ queue'[h].task = "queued"
      BY <2>1, <2>4 DEF g
    <3>7. \A h \in Grid \ adrift' :
           \/ h \notin adrift /\ ~(orders[r].pc = "enqueue" /\ orders[r].grid = h)
           \/ queue'[h].task # "none" /\ queue'[h].pc # "over"
      <4>1. ASSUME NEW h \in Grid \ adrift', h = g PROVE queue'[h].task # "none" /\ queue'[h].pc # "over"
        BY <4>1, <2>1, <2>4
      <4>2. ASSUME NEW h \in Grid \ adrift', h # g PROVE h \notin adrift /\ orders[r].grid # h
        BY <4>2, <2>1 DEF g
      <4>. QED BY <4>1, <4>2
    <3>8. o.plan # << >> /\ segments' = segments /\ queue' \in [Grid -> GridRun] /\ adrift' \in SUBSET Grid
      BY <2>1, <2>4, <2>6, <3>2
    <3>. QED BY <3>1, <3>3, <3>4, <3>5, <3>6, <3>7, <3>8, PlaceKeeps
  <2>. QED BY <2>5, <2>6
<1>4. ASSUME NEW r \in Generation \union Regeneration, EnqueueRaises(r) PROVE GridInv'
  <2>1. /\ orders[r].pc = "enqueue" /\ orders' = [orders EXCEPT ![r].pc = "failed"]
        /\ adrift' = adrift \union {orders[r].grid}
        /\ segments' = segments /\ grids' = grids /\ pictured' = pictured /\ queue' = queue /\ uprooted' = uprooted
    BY <1>4 DEF EnqueueRaises
  <2>2. PICK o : o = [orders[r] EXCEPT !.pc = "failed"]
    OBVIOUS
  <2>3. orders[r] \in GridOrder
    BY <1>b
  <2>4. /\ o \in GridOrder /\ o.pc = "failed"
        /\ o.made = orders[r].made /\ o.plan = orders[r].plan /\ o.wanted = orders[r].wanted
    BY <2>2, <2>3 DEF GridOrder
  <2>5. /\ orders' \in [Generation \union Regeneration -> GridOrder] /\ orders'[r] = o
        /\ \A q \in Generation \union Regeneration : q # r => orders'[q] = orders[q]
    BY <2>1, <2>2, <2>4, <1>b
  <2>6. \A q \in Generation \union Regeneration :
           /\ orders'[q].made = orders[q].made /\ orders'[q].plan = orders[q].plan
           /\ orders'[q].wanted = orders[q].wanted
           /\ orders[q].pc = "away" => orders'[q].pc = "away" \/ q \notin Generation
           /\ orders'[q].pc \in {"away", "done"} => orders[q].plan = << >>
           /\ orders'[q].pc = "enqueue" =>
                orders'[q].grid \in Grid /\ (orders'[q].grid \notin uprooted => grids[orders'[q].grid] # NoGrid)
    <3>1. ASSUME NEW q \in Generation \union Regeneration, q # r
          PROVE  /\ orders[q].pc \in {"away", "done"} => orders[q].plan = << >>
                 /\ orders[q].pc = "enqueue" =>
                      orders[q].grid \in Grid /\ (orders[q].grid \notin uprooted => grids[orders[q].grid] # NoGrid)
      BY <1>a DEF AsPlanned, OrderHasRecord
    <3>. QED BY <3>1, <2>1, <2>4, <2>5
  <2>7. \A h \in Grid :
           /\ grids[h] # NoGrid => grids'[h] # NoGrid
           /\ grids'[h] = grids[h] \/ grids'[h].status = "pending"
           /\ queue'[h].task # "none" => queue[h].task # "none" \/ (h \notin uprooted => grids[h] # NoGrid)
           /\ queue'[h].pc # "none" => queue'[h].pc = queue[h].pc /\ queue'[h].task # "none"
    BY <2>1, <1>a DEF RunIsTask
  <2>8. ASSUME NEW h \in Grid \ adrift', grids'[h].status = "pending"
        PROVE  (queue'[h].task # "none" /\ queue'[h].pc # "over") \/ Awaited(h)'
    <3>1. h \notin adrift /\ h # orders[r].grid
      BY <2>1, <2>8
    <3>2. CASE ~(queue'[h].task # "none" /\ queue'[h].pc # "over")
      <4>1. PICK q \in Generation \union Regeneration : orders[q].pc = "enqueue" /\ orders[q].grid = h
        BY <3>1, <3>2, <2>1, <2>8, <1>a DEF Served, Awaited
      <4>2. q # r
        BY <4>1, <3>1
      <4>. QED BY <4>1, <4>2, <2>5 DEF Awaited
    <3>. QED BY <3>2
  <2>9. orders[r].grid \in Grid
    BY <2>1, <1>a DEF OrderHasRecord
  <2>10. UNCHANGED << segments, pictured, uprooted >> /\ grids' \in [Grid -> GridRecords]
         /\ queue' \in [Grid -> GridRun] /\ adrift' \in SUBSET Grid
    BY <2>1, <2>9, <1>b
  <2>. QED BY <2>5, <2>6, <2>7, <2>8, <2>10, OrderKeeps
<1>5. ASSUME NEW g \in Grid,
             \/ ClaimGrid(g) \/ LoadGrid(g) \/ GridNotFound(g) \/ SaveReferences(g) \/ SaveBackend(g)
             \/ ImageArrives(g) \/ SaveSplitting(g) \/ SaveCompleted(g) \/ SaveFailed(g) \/ SettleGrid(g)
             \/ CancelGrid(g)
      PROVE  GridInv'
  BY <1>5, RunStep
<1>6. CASE ServerRestarts
  <2>1. /\ queue' = [g \in Grid |-> IF queue[g].task = "none" THEN NoRun ELSE [NoRun EXCEPT !.task = "queued"]]
        /\ orders' = [r \in DOMAIN orders |->
             IF orders[r].pc = "enqueue" THEN [orders[r] EXCEPT !.pc = "failed"] ELSE orders[r]]
        /\ adrift' = adrift \union {orders[r].grid : r \in {r \in DOMAIN orders : orders[r].pc = "enqueue"}}
        /\ segments' = segments /\ grids' = grids /\ pictured' = pictured /\ uprooted' = uprooted
    BY <1>6 DEF ServerRestarts
  <2>2. PICK again : again = [NoRun EXCEPT !.task = "queued"]
    OBVIOUS
  <2>3. /\ again \in GridRun /\ again.task = "queued" /\ again.pc = "none"
        /\ NoRun \in GridRun /\ NoRun.task = "none" /\ NoRun.pc = "none"
    BY <2>2 DEF NoRun, GridRun
  <2>4. queue' = [g \in Grid |-> IF queue[g].task = "none" THEN NoRun ELSE again]
    BY <2>1, <2>2
  <2>5. queue' \in [Grid -> GridRun] /\ \A g \in Grid : queue'[g] = IF queue[g].task = "none" THEN NoRun ELSE again
    BY <2>3, <2>4
  <2>6. ASSUME NEW q \in Generation \union Regeneration
        PROVE  /\ orders'[q] \in GridOrder
               /\ orders'[q].made = orders[q].made /\ orders'[q].plan = orders[q].plan
               /\ orders'[q].wanted = orders[q].wanted
               /\ orders'[q].pc = IF orders[q].pc = "enqueue" THEN "failed" ELSE orders[q].pc
    <3>1. PICK o : o = [orders[q] EXCEPT !.pc = "failed"]
      OBVIOUS
    <3>2. orders[q] \in GridOrder
      BY <1>b
    <3>3. /\ o \in GridOrder /\ o.pc = "failed"
          /\ o.made = orders[q].made /\ o.plan = orders[q].plan /\ o.wanted = orders[q].wanted
      BY <3>1, <3>2 DEF GridOrder
    <3>4. orders'[q] = IF orders[q].pc = "enqueue" THEN o ELSE orders[q]
      BY <2>1, <3>1, <1>b
    <3>. QED BY <3>2, <3>3, <3>4
  <2>7. orders' \in [Generation \union Regeneration -> GridOrder]
    <3>1. orders' = [q \in Generation \union Regeneration |-> orders'[q]]
      BY <2>1, <1>b
    <3>. QED BY <3>1, <2>6
  <2>8. \A q \in Generation \union Regeneration : orders'[q].pc \in {"away", "done"} => orders[q].plan = << >>
    BY <2>6, <1>a DEF AsPlanned
  <2>9. \A q \in Generation \union Regeneration : orders[q].pc = "enqueue" => orders[q].grid \in adrift'
    BY <2>1, <1>b
  <2>10. adrift' \in SUBSET Grid /\ adrift \in SUBSET adrift'
    <3>1. \A q \in Generation \union Regeneration : orders[q].pc = "enqueue" => orders[q].grid \in Grid
      BY <1>a DEF OrderHasRecord
    <3>. QED BY <3>1, <2>1, <1>b
  <2>11. \A h \in Grid :
           /\ grids[h] # NoGrid => grids'[h] # NoGrid
           /\ grids'[h] = grids[h] \/ grids'[h].status = "pending"
           /\ queue'[h].task # "none" => queue[h].task # "none" \/ (h \notin uprooted => grids[h] # NoGrid)
           /\ queue'[h].pc # "none" => queue'[h].pc = queue[h].pc /\ queue'[h].task # "none"
    BY <2>1, <2>3, <2>5
  <2>12. ASSUME NEW h \in Grid \ adrift', grids'[h].status = "pending"
         PROVE  (queue'[h].task # "none" /\ queue'[h].pc # "over") \/ Awaited(h)'
    <3>1. ~Awaited(h)
      BY <2>9 DEF Awaited
    <3>2. queue[h].task # "none"
      BY <2>1, <2>10, <2>12, <3>1, <1>a DEF Served
    <3>. QED BY <3>2, <2>3, <2>5
  <2>13. UNCHANGED << segments, pictured, uprooted >> /\ grids' \in [Grid -> GridRecords]
    BY <2>1, <1>b
  <2>14. \A r \in Generation \union Regeneration :
           /\ orders'[r].made = orders[r].made /\ orders'[r].plan = orders[r].plan
           /\ orders'[r].wanted = orders[r].wanted
           /\ orders[r].pc = "away" => orders'[r].pc = "away" \/ r \notin Generation
           /\ orders'[r].pc \in {"away", "done"} => orders[r].plan = << >>
           /\ orders'[r].pc = "enqueue" =>
                orders'[r].grid \in Grid /\ (orders'[r].grid \notin uprooted => grids[orders'[r].grid] # NoGrid)
    BY <2>6, <2>8
  <2>. QED BY <2>5, <2>7, <2>10, <2>11, <2>12, <2>13, <2>14, OrderKeeps
<1>7. CASE UNCHANGED gridding
  <2>1. /\ segments' = segments /\ grids' = grids /\ pictured' = pictured /\ queue' = queue /\ orders' = orders
        /\ uprooted' = uprooted /\ adrift' = adrift
    BY <1>7 DEF gridding
  <2>2. AsPlanned'
    <3>1. \A r \in Generation \union Regeneration : orders[r].pc \in {"away", "done"} => orders[r].plan = << >>
      BY <1>a DEF AsPlanned
    <3>. QED BY <3>1, <2>1, <1>a, <1>b, OrdersLinger
  <2>. QED BY <2>1, <2>2, <1>a DEF GridInv, GridTypeOK, Broken, OrderHasRecord, TaskHasRecord, RunIsTask,
                                   Illustrated, Served, Awaited
<1>. QED BY <1>1, <1>2, <1>3, <1>4, <1>5, <1>6, <1>7 DEF GridNext

\* The requests for grids leave behind what they promise: each scene of the segments once,
\* a record for each task, a task for each pending record.
THEOREM GridsStayHonest == GridSpec => []GridsHonest
<1>1. GridInv => GridsHonest
  <2>. SUFFICES ASSUME GridInv PROVE GridsHonest
    OBVIOUS
  <2>. USE GridAssumption
  <2>1. GridTypeOK /\ AsPlanned /\ TaskHasRecord /\ Illustrated /\ Served
    BY DEF GridInv
  <2>2. ASSUME NEW r \in Generation, orders[r].pc = "done"
        PROVE  /\ UNION ToSet(orders[r].made) = UNION {g .. GroupEnd(g) : g \in Groups(orders[r].wanted)}
               /\ \A i, j \in DOMAIN orders[r].made : i # j => orders[r].made[i] \cap orders[r].made[j] = {}
               /\ \A i \in DOMAIN orders[r].made :
                    {cell \in Range(FrameChain(orders[r].made[i])) : cell # 0} = orders[r].made[i]
    <3>1. PICK m, w, p : m = orders[r].made /\ w = orders[r].wanted /\ p = Plan(w)
      OBVIOUS
    <3>2. /\ p \in Seq(Piece)
          /\ \A i, j \in DOMAIN p : i # j => p[i].scenes \cap p[j].scenes = {}
          /\ \A i \in DOMAIN p : {cell \in Range(FrameChain(p[i].scenes)) : cell # 0} = p[i].scenes
          /\ \A i \in DOMAIN p : p[i].scenes \in SUBSET UNION {g .. GroupEnd(g) : g \in Groups(w)}
          /\ \A s \in UNION {g .. GroupEnd(g) : g \in Groups(w)} : \E i \in DOMAIN p : s \in p[i].scenes
      <4>1. Broken
        BY <2>1 DEF GridTypeOK
      <4>. QED BY <4>1, <3>1, PlanIs
    <3>3. m \in Seq(SUBSET (1 .. Scenes))
      BY <2>1, <3>1 DEF GridTypeOK, GridOrder
    <3>4. FollowsPlan(m, << >>, w)
      BY <2>1, <2>2, <3>1 DEF AsPlanned
    <3>5. Len(m) = Len(p) /\ \A i \in 1 .. Len(m) : m[i] = p[i].scenes
      <4>1. Len(m) \in Nat /\ Len(<< >>) = 0
        BY <3>3, LenProperties, EmptySeq
      <4>. QED BY <4>1, <3>1, <3>4 DEF FollowsPlan
    <3>6. DOMAIN m = 1 .. Len(m) /\ DOMAIN p = 1 .. Len(p)
      BY <3>2, <3>3, LenProperties
    <3>7. DOMAIN m = DOMAIN p /\ \A i \in DOMAIN m : m[i] = p[i].scenes
      BY <3>5, <3>6
    <3>8. ToSet(m) = {m[i] : i \in DOMAIN m}
      BY DEF ToSet
    <3>9. UNION ToSet(m) = UNION {g .. GroupEnd(g) : g \in Groups(w)}
      <4>1. PICK U : U = UNION {g .. GroupEnd(g) : g \in Groups(w)}
        OBVIOUS
      <4>2. \A i \in DOMAIN p : p[i].scenes \in SUBSET U
        BY <4>1, <3>2
      <4>3. \A s \in U : \E i \in DOMAIN p : s \in p[i].scenes
        BY <4>1, <3>2
      <4>. QED BY <4>1, <4>2, <4>3, <3>7, <3>8
    <3>10. /\ \A i, j \in DOMAIN m : i # j => m[i] \cap m[j] = {}
           /\ \A i \in DOMAIN m : {cell \in Range(FrameChain(m[i])) : cell # 0} = m[i]
      BY <3>2, <3>7
    <3>. QED BY <3>1, <3>9, <3>10
  <2>3. ScenesOnce
    BY <2>2 DEF ScenesOnce
  <2>4. RecordThere
    BY <2>1 DEF RecordThere, RunAt, TaskHasRecord, Illustrated
  <2>5. PendingServed
    <3>1. DOMAIN orders = Generation \union Regeneration
      BY <2>1 DEF GridTypeOK
    <3>. QED BY <3>1, <2>1 DEF PendingServed, Served, Awaited
  <2>. QED BY <2>3, <2>4, <2>5 DEF GridsHonest
<1>. QED BY <1>1, InitGrids, GridStep, PTL DEF GridSpec

================================================================================

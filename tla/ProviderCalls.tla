------------------------------ MODULE ProviderCalls ------------------------------
(***************************************************************************)
(* A call of a provider: its row in api_calls, the requests a backend      *)
(* makes, their retries (lib/retry.py), the polling of a job, the fetching *)
(* of the result, and the version that is recorded at the end.             *)
(*                                                                         *)
(* Backends of one kind differ in how the phases are split, in how often   *)
(* each is tried, and in what they do about a reference picture that is    *)
(* not there: a record says so for each.  Calls share nothing but the      *)
(* limiter, which has a module of its own (RateLimiter), so one is enough. *)
(* Errors are told apart as the retries tell them apart: "passing" ones    *)
(* are retried (by their type or a word in their text), "lasting" ones are *)
(* not.                                                                    *)
(***************************************************************************)
EXTENDS Integers, FiniteSets

CONSTANT MaxPolls   \* polls until the deadline of a job has passed

ASSUME PollAssumption == MaxPolls \in Nat \ {0}

VARIABLES call, row, provider

calls == << call, row, provider >>

-----------------------------------------------------------------------------
(* Backends *)

\* paced: each request takes a token.  tries: of the request.  polled: the request makes a
\* job that is polled; otherwise it is answered with the result.  fetch: the result is
\* fetched apart, within the tried request, or is the answer itself.  again and over: tries
\* of a fetch and of the round of them, and the errors that a round is repeated for.
\* needsRefs: a missing picture raises.  repeats: the errors of a structured request for
\* which it is made again, within the same try, in another form.
Fetch(how, again, over, errors) == [how |-> how, again |-> again, over |-> over, errors |-> errors]
Apart(again, over, errors) == Fetch("apart", again, over, errors)
Within == Fetch("within", 1, 1, {})
Answer == Fetch("answer", 1, 1, {})

Backend(medium, paced, tries, polled, fetch, needsRefs, repeats) ==
  [medium |-> medium, paced |-> paced, tries |-> tries, polled |-> polled, fetch |-> fetch,
   needsRefs |-> needsRefs, repeats |-> repeats]

GeminiVideo == Backend("video", TRUE, 3, TRUE, Apart(5, 1, {}), TRUE, {})
ArkVideo == Backend("video", FALSE, 3, TRUE, Apart(3, 5, {"unready"}), TRUE, {})
OpenAIVideo == Backend("video", FALSE, 3, TRUE, Apart(5, 1, {}), FALSE, {})
NewAPIVideo == Backend("video", FALSE, 3, TRUE, Apart(3, 5, {"passing", "unready", "lasting"}), FALSE, {})
GrokVideo == Backend("video", FALSE, 3, FALSE, Apart(3, 1, {}), FALSE, {})

GeminiImage == Backend("image", TRUE, 5, FALSE, Within, TRUE, {})
OpenAIImage == Backend("image", FALSE, 3, FALSE, Within, TRUE, {})
ArkImage == Backend("image", FALSE, 3, FALSE, Within, TRUE, {})
GrokImage == Backend("image", FALSE, 3, FALSE, Within, FALSE, {})

GeminiText == Backend("text", FALSE, 3, FALSE, Answer, TRUE, {})
OpenAIText == Backend("text", FALSE, 4, FALSE, Answer, TRUE, {"schema"})
ArkText == Backend("text", FALSE, 3, FALSE, Answer, TRUE, {"schema", "passing", "lasting"})
GrokText == Backend("text", FALSE, 3, FALSE, Answer, TRUE, {})

\* A custom provider has one of the others do the work.
Custom == {OpenAIText, GeminiText, OpenAIImage, GeminiImage, OpenAIVideo, NewAPIVideo}

Backends ==
  {GeminiVideo, ArkVideo, OpenAIVideo, NewAPIVideo, GrokVideo, GeminiImage, OpenAIImage,
   ArkImage, GrokImage, GeminiText, OpenAIText, ArkText, GrokText} \union Custom

-----------------------------------------------------------------------------
(* The call *)

\* pictures: what is there of the pictures it refers to.  form: a plain request, or a
\* structured one in the provider's own form or in the other one.
CallInit ==
  /\ call \in [backend : Backends, pictures : {"there", "missing"},
               wants : {"plain", "native", "other"}, form : {"plain"}, pc : {"away"},
               tried : {1}, polls : {0}, again : {1}, over : {1}, written : {FALSE}]
  /\ call.wants # "plain" => call.backend.medium = "text"
  /\ row = [status |-> "none", refused |-> FALSE]
  /\ provider = [jobs |-> 0, unheard |-> 0, requests |-> 0, tokens |-> 0]

At(pc) == call.pc = pc
Went(pc) == [call EXCEPT !.pc = pc]
Go(pc) == call' = Went(pc) /\ UNCHANGED << row, provider >>

Over == call.pc \in {"away", "done", "raised", "cancelled"}

Trying(n) == [call EXCEPT !.pc = "trying", !.tried = n, !.form = call.wants]

\* The backend cannot do what the request needs: nothing is recorded.
RefuseCall == At("away") /\ call.backend.medium = "image" /\ Go("raised")

StartCall ==
  /\ At("away")
  /\ row' = [row EXCEPT !.status = "pending"]
  /\ call' = Trying(1)
  /\ UNCHANGED provider

StartCallFails == At("away") /\ Go("raised")

\* A try: its token, and the pictures.
Prepare ==
  /\ At("trying")
  /\ call' = Went(IF call.pictures = "missing" /\ call.backend.needsRefs THEN "failing" ELSE "sending")
  /\ provider' = [provider EXCEPT !.tokens = @ + IF call.backend.paced THEN 1 ELSE 0]
  /\ UNCHANGED row

\* What is done about an error of a try: another request within it, another try, or none.
Error(e) ==
  call' = IF e \in call.backend.repeats /\ call.form = "native" THEN [call EXCEPT !.pc = "sending", !.form = "other"]
          ELSE IF e = "passing" /\ call.tried < call.backend.tries THEN Trying(call.tried + 1)
          ELSE Went("failing")

Requested(jobs, unheard) ==
  /\ At("sending")
  /\ provider' = [provider EXCEPT !.requests = @ + 1, !.jobs = @ + jobs, !.unheard = @ + unheard]
  /\ UNCHANGED row

AnswerRequest ==
  /\ Requested(1, 0)
  /\ call' = Went(CASE call.backend.polled -> "polling"
                    [] call.backend.fetch.how = "apart" -> "fetching"
                    [] call.backend.fetch.how = "within" -> "saving"
                    [] call.backend.fetch.how = "answer" -> "answered")

\* The answer does not come, or is without the number of the job or without a result.
AnswerLost == Requested(1, 1) /\ \E e \in {"passing", "lasting"} : Error(e)

Reject ==
  /\ Requested(0, 0)
  /\ \E e \in {"passing", "lasting", "schema"} : (e = "schema" => call.form = "native") /\ Error(e)

-----------------------------------------------------------------------------
(* The job and its result *)

\* poll_with_retry asks before it waits; an error that passes is one more poll.
PollAgain ==
  /\ At("polling") /\ call.polls + 1 < MaxPolls
  /\ call' = [call EXCEPT !.polls = @ + 1]
  /\ UNCHANGED << row, provider >>

PollDone == At("polling") /\ Go("fetching")

\* The job failed, the error lasts, or the deadline has passed.
PollFails == At("polling") /\ Go("failing")

\* Mutant: what cannot be fetched is generated again.
FetchGivenUp_Anew(e) ==
  IF e = "passing" /\ call.tried < call.backend.tries THEN Trying(call.tried + 1) ELSE Went("failing")

FetchGivenUp(e) == Went("failing")

FetchFails(e) ==
  /\ At("fetching")
  /\ call' = IF e = "passing" /\ call.again < call.backend.fetch.again
             THEN [call EXCEPT !.again = @ + 1]
             ELSE IF e \in call.backend.fetch.errors /\ call.over < call.backend.fetch.over
             THEN [call EXCEPT !.over = @ + 1, !.again = 1]
             ELSE FetchGivenUp(e)
  /\ UNCHANGED << row, provider >>

Fetched ==
  /\ At("fetching")
  /\ call' = [call EXCEPT !.pc = "answered", !.written = TRUE]
  /\ UNCHANGED << row, provider >>

\* The picture is decoded or downloaded, and saved, within the try.
Save ==
  /\ At("saving")
  /\ call' = [call EXCEPT !.pc = "answered", !.written = TRUE]
  /\ UNCHANGED << row, provider >>

SaveFails ==
  /\ At("saving")
  /\ \E e \in {"passing", "lasting"} : Error(e)
  /\ UNCHANGED << row, provider >>

-----------------------------------------------------------------------------
(* The row and the version *)

FinishSuccess ==
  /\ At("answered")
  /\ row' = [row EXCEPT !.status = "success"]
  /\ call' = Went(IF call.backend.medium = "text" THEN "done" ELSE "recording")
  /\ UNCHANGED provider

\* The update of the row raises, and is followed by another that says failed.
FinishSuccessFails ==
  /\ At("answered")
  /\ row' = [row EXCEPT !.refused = TRUE]
  /\ call' = Went("failing")
  /\ UNCHANGED provider

FinishFailure ==
  /\ At("failing")
  /\ row' = [row EXCEPT !.status = "failed"]
  /\ call' = Went("raised")
  /\ UNCHANGED provider

FinishFailureFails ==
  /\ At("failing")
  /\ row' = [row EXCEPT !.refused = TRUE]
  /\ call' = Went("raised")
  /\ UNCHANGED provider

Record == At("recording") /\ Go("done")
RecordFails == At("recording") /\ Go("raised")

\* A CancelledError is not caught, nor is the end of the server.
Cancel == ~Over /\ Go("cancelled")

CallNext ==
  \/ RefuseCall \/ StartCall \/ StartCallFails
  \/ Prepare \/ AnswerRequest \/ AnswerLost \/ Reject
  \/ PollAgain \/ PollDone \/ PollFails
  \/ (\E e \in {"passing", "unready", "lasting"} : FetchFails(e)) \/ Fetched \/ Save \/ SaveFails
  \/ FinishSuccess \/ FinishSuccessFails \/ FinishFailure \/ FinishFailureFails
  \/ Record \/ RecordFails \/ Cancel

CallSpec == CallInit /\ [][CallNext]_calls

-----------------------------------------------------------------------------
(* Properties *)

\* Where the result is fetched apart from the request, one job is paid for, besides those
\* whose answer never came: no error of a poll or of a download makes another.
OneJob == call.backend.fetch.how = "apart" => provider.jobs - provider.unheard <= 1

\* The limiter gives a token for each request that it is there for.
TokenEach == call.backend.paced => provider.requests <= provider.tokens

\* The row says how the call ended: success if and only if there was a result, written by
\* this call and returned or only lacking its version; failed if and only if it raised; and
\* pending only if it was cancelled or the table refused an update.
RowTrue ==
  /\ row.status = "success" =>
       /\ call.pc \in {"recording", "done", "raised", "cancelled"}
       /\ call.written \/ call.backend.medium = "text"
  /\ At("done") => row.status = "success"
  /\ row.status = "failed" => At("raised")
  /\ Over /\ row.status = "pending" => At("cancelled") \/ row.refused

\* Whatever is repeated of a call, it does not buy its result twice, asks the limiter each time
\* it asks the provider, and leaves a row that says how it ended.
CallAccounted == OneJob /\ TokenEach /\ RowTrue

=================================================================================

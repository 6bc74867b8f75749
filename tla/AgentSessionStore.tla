---------------------------- MODULE AgentSessionStore ----------------------------
(***************************************************************************)
(* The transcript of one session in the database, to which several appends *)
(* go at the same time.  An append reads the next sequence number, inserts *)
(* its entries from there on, folds them into the summary of the session   *)
(* and commits; it begins again when another one took its numbers.  From   *)
(* its insert to its commit a transaction has the transcript to itself:    *)
(* SQLite has one writer, and PostgreSQL makes an insert of a number wait  *)
(* for the transaction that has inserted it.                               *)
(***************************************************************************)
EXTENDS Integers, Sequences, FiniteSets, FiniteSetsExt, Functions

CONSTANTS
  Writer,      \* calls of append
  EntriesOf,   \* the uuids of the entries of each call; two calls may repeat an entry
  NoWriter,
  MaxTries     \* 16 in the code

ASSUME StoreAssumption ==
  /\ NoWriter \notin Writer /\ MaxTries \in Nat \ {0}
  /\ \A w \in Writer : EntriesOf[w] \in Seq(Range(EntriesOf[w]))

VARIABLES
  rows,      \* sequence numbers to uuids
  summary,   \* the calls folded into the summary, in their order
  writing,   \* the transaction between insert and commit
  append

transcript == << rows, summary, writing, append >>

NotBegun == [pc |-> "idle", start |-> 0, tries |-> 0, fresh |-> {}, before |-> 0]

StoreRowsInit ==
  /\ rows = << >> /\ summary = << >> /\ writing = NoWriter
  /\ append = [w \in Writer |-> NotBegun]

Entries(w) == EntriesOf[w]
Number(w, i) == append[w].start + i - 1

\* Mutant: the retry keeps the number it has.
NextSeq_Kept(w) ==
  IF append[w].tries > 0 THEN append[w].start
  ELSE IF DOMAIN rows = {} THEN 0 ELSE Max(DOMAIN rows) + 1

NextSeq(w) == IF DOMAIN rows = {} THEN 0 ELSE Max(DOMAIN rows) + 1

ReadSeq(w) ==
  /\ append[w].pc \in {"idle", "again"}
  /\ append' = [append EXCEPT ![w].pc = "read", ![w].start = NextSeq(w),
                              ![w].before = IF append[w].pc = "idle" THEN Len(summary) ELSE @]
  /\ UNCHANGED << rows, summary, writing >>

\* ON CONFLICT (uuid) DO NOTHING leaves these; an entry in the call itself is there once.
Fresh(w) ==
  {i \in DOMAIN Entries(w) : /\ Entries(w)[i] \notin Range(rows)
                             /\ \A j \in 1 .. i - 1 : Entries(w)[j] # Entries(w)[i]}

Taken(w) == {i \in Fresh(w) : Number(w, i) \in DOMAIN rows}

InsertEntries(w) ==
  /\ append[w].pc = "read" /\ writing = NoWriter
  /\ Taken(w) = {}
  /\ writing' = w
  /\ append' = [append EXCEPT ![w].pc = "inserted", ![w].fresh = Fresh(w)]
  /\ UNCHANGED << rows, summary >>

\* The primary key refuses a number that is taken, the one of a repeated entry perhaps too.
SeqRace(w) ==
  /\ append[w].pc = "read" /\ writing = NoWriter
  /\ \E i \in DOMAIN Entries(w) : Number(w, i) \in DOMAIN rows
  /\ append' = [append EXCEPT ![w].tries = @ + 1,
                              ![w].pc = IF append[w].tries + 1 = MaxTries THEN "gave up" ELSE "again"]
  /\ UNCHANGED << rows, summary, writing >>

\* The summary is read, folded and written in the transaction.
Commit(w) ==
  /\ append[w].pc = "inserted"
  /\ LET added == {Number(w, i) : i \in append[w].fresh} IN
     rows' = [n \in DOMAIN rows \union added |->
                IF n \in added THEN Entries(w)[n - append[w].start + 1] ELSE rows[n]]
  /\ summary' = Append(summary, w)
  /\ writing' = NoWriter
  /\ append' = [append EXCEPT ![w].pc = "done"]

\* Any other error goes to the caller, and the transaction is rolled back.
Rollback(w) ==
  /\ append[w].pc \in {"read", "inserted"}
  /\ writing' = IF writing = w THEN NoWriter ELSE writing
  /\ append' = [append EXCEPT ![w].pc = "failed"]
  /\ UNCHANGED << rows, summary >>

StoreNext ==
  \E w \in Writer : ReadSeq(w) \/ InsertEntries(w) \/ SeqRace(w) \/ Commit(w) \/ Rollback(w)

StoreSpec == StoreRowsInit /\ [][StoreNext]_transcript

-----------------------------------------------------------------------------
(* Properties *)

Where(u) == {n \in DOMAIN rows : rows[n] = u}

\* A call that returned has every entry in the transcript, once each and in its order as far
\* as the call was the first to bring them, and nothing got into the transcript or
\* the summary from one that did not return.
AppendsKept ==
  /\ \A w \in Writer : append[w].pc = "done" =>
       /\ \A i \in DOMAIN Entries(w) : Cardinality(Where(Entries(w)[i])) = 1
       /\ \A i, j \in append[w].fresh : i < j =>
            \A m \in Where(Entries(w)[i]), n \in Where(Entries(w)[j]) : m < n
  /\ \A n \in DOMAIN rows : \E w \in Range(summary) : rows[n] \in Range(Entries(w))
  /\ Range(summary) = {w \in Writer : append[w].pc = "done"}

\* A call gives up only when as many others as it tried times were committed meanwhile: the
\* writers of a session never run out of tries unless there are that many of them.
RaceLostToOthers ==
  \A w \in Writer : append[w].tries <= Len(summary) - append[w].before

\* The transcript has what was appended, and nobody gives up without having lost to others.
TranscriptKept == AppendsKept /\ RaceLostToOthers

================================================================================

------------------------- MODULE ExecutionLogProofs -------------------------
(***************************************************************************)
(* Theorems about ExecutionLog, for all runs, automations and buffer       *)
(* sizes.                                                                  *)
(***************************************************************************)
EXTENDS ExecutionLog, SequenceTheorems, TLAPS

-----------------------------------------------------------------------------
(* The inductive invariant.                                                *)

RunningOf(r) == [run |-> r, status |-> "running"]
EndedOf(r) == [run |-> r, status |-> "ended"]

Batches == sent \cup {buffer}

NoRepeat(b) == \A i, j \in DOMAIN b : b[i] = b[j] => i = j
NoEntryTwice == \A b \in Batches : NoRepeat(b)

\* An entry is written when its run has begun, the outcome when the run is over.
WrittenInPhase ==
  \A b \in Batches : \A e \in Entries(b) :
    phase[e.run] # "new" /\ (e.status = "ended" => phase[e.run] = "closed")

OneBatchUnderWay ==
  \A b, c \in sent : \A r \in RunsOf(b) \cap RunsOf(c) : b = c \/ r \in together

\* A running entry cannot overtake the outcome of its run: the outcome goes with it, or
\* has yet to leave the buffer, or does not arrive.
OutcomeFollows ==
  \A r \in Run \ together : \A b \in Batches :
    RunningOf(r) \in Entries(b) /\ phase[r] = "closed" =>
      EndedOf(r) \in Entries(b) \cup Entries(buffer) \cup lost \cup dropped

IInv ==
  /\ TypeOK /\ NoEntryTwice /\ WrittenInPhase /\ OneBatchUnderWay /\ OutcomeFollows
  /\ LossIsExplained /\ LogTellsOutcome

-----------------------------------------------------------------------------
(* Sequences of entries.                                                   *)

LEMMA EntryFields ==
  /\ \A e \in Entry : e.run \in Run /\ e.status \in {"running", "ended"}
  /\ \A e \in Entry : e = RunningOf(e.run) \/ e = EndedOf(e.run)
  /\ \A r \in Run : RunningOf(r) \in Entry /\ EndedOf(r) \in Entry
  /\ \A r \in Run : RunningOf(r).run = r /\ EndedOf(r).run = r
  /\ \A r \in Run : RunningOf(r).status = "running" /\ EndedOf(r).status = "ended"
  BY DEF Entry, RunningOf, EndedOf

LEMMA EmptyBatch ==
  <<>> \in Seq(Entry) /\ Entries(<<>>) = {} /\ NoRepeat(<<>>) /\ Len(<<>>) = 0
  BY DEF Entries, NoRepeat

LEMMA EntriesOfBatch ==
  ASSUME NEW b \in Seq(Entry)
  PROVE  /\ Entries(b) \subseteq Entry /\ RunsOf(b) \subseteq Run
         /\ \A r : r \in RunsOf(b) <=> \E e \in Entries(b) : e.run = r
  BY EntryFields DEF Entries, RunsOf

LEMMA AppendBatch ==
  ASSUME NEW b \in Seq(Entry), NEW e \in Entry, e \notin Entries(b), NoRepeat(b)
  PROVE  /\ Append(b, e) \in Seq(Entry) /\ Len(Append(b, e)) = Len(b) + 1
         /\ Entries(Append(b, e)) = Entries(b) \cup {e}
         /\ NoRepeat(Append(b, e))
  <1> DEFINE a == Append(b, e)
  <1>1. /\ a \in Seq(Entry) /\ Len(a) = Len(b) + 1 /\ DOMAIN a = 1 .. Len(b) + 1
        /\ \A i \in 1 .. Len(b) : a[i] = b[i]
        /\ a[Len(b) + 1] = e
    BY AppendProperties
  <1>2. DOMAIN b = 1 .. Len(b) /\ Len(b) \in Nat
    OBVIOUS
  <1> HIDE DEF a
  <1>3. Entries(a) = Entries(b) \cup {e}
    <2>1. Entries(a) \subseteq Entries(b) \cup {e}
      BY <1>1, <1>2 DEF Entries
    <2>2. Entries(b) \subseteq Entries(a) /\ e \in Entries(a)
      BY <1>1, <1>2 DEF Entries
    <2>3. QED
      BY <2>1, <2>2
  <1>4. NoRepeat(a)
    <2>1. SUFFICES ASSUME NEW i \in 1 .. Len(b) + 1, NEW j \in 1 .. Len(b) + 1, a[i] = a[j]
                   PROVE  i = j
      BY <1>1 DEF NoRepeat
    <2>2. \A k \in 1 .. Len(b) : a[k] # e
      BY <1>1, <1>2 DEF Entries
    <2>3. CASE i \in 1 .. Len(b) /\ j \in 1 .. Len(b)
      BY <2>1, <2>3, <1>1, <1>2 DEF NoRepeat
    <2>4. CASE i = Len(b) + 1 \/ j = Len(b) + 1
      BY <2>1, <2>2, <2>4, <1>1, <1>2
    <2>5. QED
      BY <2>3, <2>4, <1>2
  <1>5. QED
    BY <1>1, <1>3, <1>4 DEF a

-----------------------------------------------------------------------------
(* Steps that write or flush.                                              *)

\* The buffer becomes b, or b leaves as a batch.
Sends(b) ==
  \/ buffer' = b /\ Len(b) < MaxBuffer /\ UNCHANGED <<sent, together>>
  \/ Flush(b)

LEMMA WriteSends ==
  ASSUME NEW e, Write(e)
  PROVE  Sends(Append(buffer, e))
  BY DEF Write, Sends

\* What such a step has to say of the phases and of b for the invariant to hold after it.
LEMMA SendStep ==
  ASSUME IInv, NEW b \in Seq(Entry), Len(b) <= MaxBuffer, NoRepeat(b), Sends(b),
         Entries(buffer) \subseteq Entries(b),
         phase' \in [Run -> {"new", "open", "closed", "gone"}],
         writer' \in {"on", "off", "down"},
         \A c \in sent \cup {b} : \A e \in Entries(c) :
           phase'[e.run] # "new" /\ (e.status = "ended" => phase'[e.run] = "closed"),
         \A r \in Run : phase'[r] = "closed" =>
           phase[r] = "closed" \/ EndedOf(r) \in Entries(b),
         \A r \in Run : phase[r] = "closed" => phase'[r] = "closed",
         \A e \in Entries(b) \ Entries(buffer) : e.status = "ended" \/ phase'[e.run] # "closed",
         UNCHANGED <<row, alive, lost, dropped, outage, purged>>
  PROVE  IInv'
  <1> USE DEF IInv
  <1>1. buffer' \in {b, <<>>} /\ sent' \in {sent, sent \cup {b}} /\ together \subseteq together'
    BY DEF Sends, Flush
  <1>2. \A c \in Batches' : c \in sent \/ c = b \/ c = <<>>
    BY <1>1 DEF Batches
  <1>3. b \in Batches'
    BY DEF Sends, Flush, Batches
  <1>4. TypeOK'
    <2>1. together' \subseteq Run
      BY EntriesOfBatch DEF Sends, Flush, TypeOK
    <2>2. buffer' \in Seq(Entry) /\ Len(buffer') < MaxBuffer
      <3>1. CASE buffer' = b /\ Len(b) < MaxBuffer
        BY <3>1
      <3>2. CASE buffer' = <<>>
        BY <3>2, BufferAssumption
      <3>3. QED
        BY <3>1, <3>2 DEF Sends, Flush
    <2>3. sent' \subseteq Seq(Entry) /\ \A c \in sent' : Len(c) <= MaxBuffer
      BY <1>1 DEF TypeOK
    <2>4. QED
      BY <2>1, <2>2, <2>3 DEF TypeOK
  <1>5. NoEntryTwice'
    BY <1>2, EmptyBatch DEF NoEntryTwice, Batches
  <1>6. WrittenInPhase'
    <2>1. SUFFICES ASSUME NEW c \in Batches', NEW e \in Entries(c)
                   PROVE  phase'[e.run] # "new" /\ (e.status = "ended" => phase'[e.run] = "closed")
      BY DEF WrittenInPhase
    <2>2. c \in sent \cup {b}
      BY <1>2, EmptyBatch
    <2>3. QED
      BY <2>2
  <1>7. OneBatchUnderWay'
    <2>1. CASE sent' = sent
      BY <2>1, <1>1 DEF OneBatchUnderWay
    <2>2. CASE Flush(b)
      <3>1. SUFFICES ASSUME NEW c \in sent', NEW d \in sent', NEW r \in RunsOf(c) \cap RunsOf(d), c # d
                     PROVE  r \in together'
        BY DEF OneBatchUnderWay
      <3>2. CASE c \in sent /\ d \in sent
        BY <3>1, <3>2, <1>1 DEF OneBatchUnderWay
      <3>3. CASE c = b \/ d = b
        BY <3>1, <3>3, <2>2 DEF Flush
      <3>4. QED
        BY <3>2, <3>3, <2>2 DEF Flush
    <2>3. QED
      BY <2>1, <2>2 DEF Sends
  <1>8. OutcomeFollows'
    <2>1. SUFFICES ASSUME NEW r \in Run, r \notin together', NEW c \in Batches',
                          RunningOf(r) \in Entries(c), phase'[r] = "closed"
                   PROVE  EndedOf(r) \in Entries(c) \cup Entries(buffer') \cup lost \cup dropped
      BY DEF OutcomeFollows
    <2>2. r \notin together
      BY <1>1, <2>1
    <2>3. CASE c = b
      <3>1. RunningOf(r) \in Entries(buffer)
        BY <2>1, <2>3, EntryFields
      <3>2. CASE phase[r] = "closed"
        BY <3>1, <3>2, <2>1, <2>2, <2>3 DEF OutcomeFollows, Batches
      <3>3. CASE EndedOf(r) \in Entries(b)
        BY <3>3, <2>3
      <3>4. QED
        BY <3>2, <3>3, <2>1
    <2>4. CASE c \in sent
      <3>1. EndedOf(r) \in Entries(c) \cup Entries(b) \cup lost \cup dropped
        BY <2>1, <2>2, <2>4 DEF OutcomeFollows, Batches
      <3>2. CASE buffer' = b
        BY <3>1, <3>2
      <3>3. CASE Flush(b) /\ EndedOf(r) \in Entries(b)
        <4>1. r \in RunsOf(b) /\ r \in RunsOf(c)
          BY <2>1, <3>3, EntryFields DEF RunsOf
        <4>2. QED
          BY <4>1, <2>1, <2>4, <3>3 DEF Flush
      <3>4. QED
        BY <3>1, <3>2, <3>3 DEF Sends
    <2>5. QED
      BY <2>1, <2>3, <2>4, <1>2, EmptyBatch
  <1>9. LossIsExplained'
    BY DEF LossIsExplained
  <1>10. LogTellsOutcome'
    <2>1. SUFFICES ASSUME NEW r \in Run, phase'[r] = "closed", Owner[r] \in alive,
                          EndedOf(r) \notin Entries(buffer'),
                          \A c \in sent' : EndedOf(r) \notin Entries(c),
                          EndedOf(r) \notin lost \cup dropped, r \notin together' \cup purged
                   PROVE  row[r] = "ended"
      BY DEF LogTellsOutcome, InBuffer, UnderWay, EndedOf
    <2>2. EndedOf(r) \notin Entries(b)
      BY <2>1, <1>3 DEF Batches
    <2>3. phase[r] = "closed"
      BY <2>1, <2>2
    <2>4. /\ EndedOf(r) \notin Entries(buffer) /\ \A c \in sent : EndedOf(r) \notin Entries(c)
          /\ r \notin together \cup purged
      BY <2>1, <2>2, <1>1
    <2>5. QED
      BY <2>1, <2>3, <2>4 DEF LogTellsOutcome, InBuffer, UnderWay, EndedOf
  <1>11. QED
    BY <1>4, <1>5, <1>6, <1>7, <1>8, <1>9, <1>10

-----------------------------------------------------------------------------
(* The other steps.                                                        *)

\* A batch leaves, and the rest of the writer stays as it is.
LEMMA SettleKeepsBatches ==
  ASSUME IInv, NEW b \in sent, sent' = sent \ {b}, lost \subseteq lost',
         UNCHANGED <<phase, writer, buffer, dropped, together>>
  PROVE  /\ NoEntryTwice' /\ WrittenInPhase' /\ OneBatchUnderWay' /\ OutcomeFollows'
         /\ sent' \subseteq Seq(Entry) /\ \A c \in sent' : Len(c) <= MaxBuffer
  <1> USE DEF IInv
  <1>1. Batches' \subseteq Batches
    BY DEF Batches
  <1>2. NoEntryTwice' /\ WrittenInPhase'
    BY <1>1 DEF NoEntryTwice, WrittenInPhase
  <1>3. OneBatchUnderWay'
    BY DEF OneBatchUnderWay
  <1>4. OutcomeFollows'
    BY <1>1 DEF OutcomeFollows
  <1>5. QED
    BY <1>2, <1>3, <1>4 DEF TypeOK

\* An accepted batch has one entry of a run at most, and the row takes its status.
LEMMA AcceptedStatus ==
  ASSUME NEW b \in Seq(Entry), ~Refuses(b), NEW r \in RunsOf(b)
  PROVE  \A e \in Entries(b) : e.run = r => StatusIn(b, r) = e.status
  <1>1. \A d, e \in Entries(b) : d.run = r /\ e.run = r => d = e
    BY DEF Refuses, Entries
  <1>2. \E e \in Entries(b) : e.run = r
    BY EntriesOfBatch
  <1>3. QED
    BY <1>1, <1>2 DEF StatusIn

LEMMA InsertedKeeps ==
  ASSUME IInv, NEW b, Inserted(b)
  PROVE  IInv'
  <1> USE DEF IInv
  <1>1. /\ b \in sent /\ ~Refuses(b) /\ sent' = sent \ {b} /\ row' = Upsert(b)
        /\ UNCHANGED <<phase, writer, buffer, alive, lost, dropped, outage, together, purged>>
    BY DEF Inserted, process, history
  <1>2. /\ NoEntryTwice' /\ WrittenInPhase' /\ OneBatchUnderWay' /\ OutcomeFollows'
        /\ sent' \subseteq Seq(Entry) /\ \A c \in sent' : Len(c) <= MaxBuffer
    BY <1>1, SettleKeepsBatches
  <1>3. b \in Seq(Entry)
    BY <1>1 DEF TypeOK
  <1>4. \A r \in RunsOf(b) : \E e \in Entries(b) : e.run = r /\ StatusIn(b, r) = e.status
    BY <1>1, <1>3, AcceptedStatus, EntriesOfBatch
  <1>5. TypeOK'
    <2>1. \A r \in RunsOf(b) : StatusIn(b, r) \in {"running", "ended"}
      BY <1>3, <1>4, EntriesOfBatch, EntryFields
    <2>2. row' \in [Run -> {"none", "running", "ended"}]
      BY <2>1, <1>1 DEF TypeOK, Upsert
    <2>3. QED
      BY <2>2, <1>1, <1>2 DEF TypeOK
  <1>6. LossIsExplained'
    BY <1>1 DEF LossIsExplained
  <1>7. LogTellsOutcome'
    <2>1. SUFFICES ASSUME NEW r \in Run, phase[r] = "closed", Owner[r] \in alive,
                          EndedOf(r) \notin Entries(buffer),
                          \A c \in sent' : EndedOf(r) \notin Entries(c),
                          EndedOf(r) \notin lost \cup dropped, r \notin together \cup purged
                   PROVE  row'[r] = "ended"
      BY <1>1 DEF LogTellsOutcome, InBuffer, UnderWay, EndedOf
    <2>2. CASE r \in RunsOf(b)
      <3>1. PICK e \in Entries(b) : e.run = r /\ StatusIn(b, r) = e.status
        BY <2>2, <1>4
      <3>2. EndedOf(r) \in Entries(b)
        <4>1. CASE e = RunningOf(r)
          BY <4>1, <2>1, <3>1, <1>1 DEF OutcomeFollows, Batches
        <4>2. CASE e = EndedOf(r)
          BY <4>2, <3>1
        <4>3. QED
          BY <4>1, <4>2, <3>1, <1>3, EntriesOfBatch, EntryFields
      <3>3. StatusIn(b, r) = "ended"
        BY <3>2, <2>2, <1>1, <1>3, AcceptedStatus, EntryFields
      <3>4. QED
        BY <3>3, <2>2, <1>1 DEF Upsert
    <2>3. CASE r \notin RunsOf(b)
      <3>1. EndedOf(r) \notin Entries(b)
        BY <2>3, <1>3, EntriesOfBatch, EntryFields
      <3>2. \A c \in sent : EndedOf(r) \notin Entries(c)
        BY <3>1, <2>1, <1>1
      <3>3. row[r] = "ended"
        BY <3>2, <2>1 DEF LogTellsOutcome, InBuffer, UnderWay, EndedOf
      <3>4. QED
        BY <3>3, <2>3, <1>1 DEF Upsert
    <2>4. QED
      BY <2>2, <2>3
  <1>8. QED
    BY <1>2, <1>5, <1>6, <1>7

\* A batch that does not arrive: refused for what it holds, or failed.
LEMMA LostKeeps ==
  ASSUME IInv, NEW b, Refused(b) \/ Failed(b)
  PROVE  IInv'
  <1> USE DEF IInv
  <1>1. /\ b \in sent /\ sent' = sent \ {b} /\ lost' = lost \cup Entries(b)
        /\ UNCHANGED <<phase, writer, buffer, row, alive, dropped, together, purged>>
    BY DEF Refused, Failed, process
  <1>2. (Refuses(b) /\ outage' = outage) \/ outage' = TRUE
    BY DEF Refused, Failed
  <1>3. b \in Seq(Entry) /\ Entries(b) \subseteq Entry
    BY <1>1, EntriesOfBatch DEF TypeOK
  <1>4. /\ NoEntryTwice' /\ WrittenInPhase' /\ OneBatchUnderWay' /\ OutcomeFollows'
        /\ sent' \subseteq Seq(Entry) /\ \A c \in sent' : Len(c) <= MaxBuffer
    BY <1>1, SettleKeepsBatches
  <1>5. TypeOK'
    <2>1. outage' \in BOOLEAN
      BY <1>2 DEF TypeOK
    <2>2. QED
      BY <2>1, <1>1, <1>3, <1>4 DEF TypeOK
  <1>6. LossIsExplained'
    <2>1. SUFFICES ASSUME ~outage', alive = Automation
                   PROVE  \E r \in Run : {RunningOf(r), EndedOf(r)} \subseteq lost' \/ lost' = {}
      BY <1>1 DEF LossIsExplained, RunningOf, EndedOf
    <2>2. Refuses(b) /\ ~outage
      BY <2>1, <1>2
    <2>3. \A r \in RunsOf(b) : Owner[r] \in alive
      BY <2>1, <1>3, EntriesOfBatch, OwnerAssumption
    <2>4. PICK i, j \in DOMAIN b : i # j /\ b[i].run = b[j].run
      BY <2>2, <2>3 DEF Refuses
    <2>5. b[i] # b[j] /\ b[i] \in Entries(b) /\ b[j] \in Entries(b)
      BY <2>4, <1>1 DEF NoEntryTwice, NoRepeat, Batches, Entries
    <2>6. {RunningOf(b[i].run), EndedOf(b[i].run)} \subseteq Entries(b) /\ b[i].run \in Run
      BY <2>4, <2>5, <1>3, EntryFields
    <2>7. QED
      BY <2>6, <1>1
  <1>7. LogTellsOutcome'
    <2>1. SUFFICES ASSUME NEW r \in Run, phase[r] = "closed", Owner[r] \in alive,
                          EndedOf(r) \notin Entries(buffer),
                          \A c \in sent' : EndedOf(r) \notin Entries(c),
                          EndedOf(r) \notin lost' \cup dropped, r \notin together \cup purged
                   PROVE  row[r] = "ended"
      BY <1>1 DEF LogTellsOutcome, InBuffer, UnderWay, EndedOf
    <2>2. \A c \in sent : EndedOf(r) \notin Entries(c)
      BY <2>1, <1>1
    <2>3. QED
      BY <2>1, <2>2, <1>1 DEF LogTellsOutcome, InBuffer, UnderWay, EndedOf
  <1>8. QED
    BY <1>4, <1>5, <1>6, <1>7

LEMMA CleanupKeeps ==
  ASSUME IInv, NEW R \in SUBSET Run, Cleanup(R)
  PROVE  IInv'
  <1> USE DEF IInv
  <1>1. /\ row' = [r \in Run |-> IF r \in R THEN "none" ELSE row[r]]
        /\ purged' = purged \cup R
        /\ UNCHANGED <<phase, writer, buffer, sent, alive, lost, dropped, outage, together>>
    BY DEF Cleanup, process
  <1>2. TypeOK'
    BY <1>1 DEF TypeOK
  <1>3. NoEntryTwice' /\ WrittenInPhase' /\ OneBatchUnderWay' /\ OutcomeFollows'
    BY <1>1 DEF NoEntryTwice, WrittenInPhase, OneBatchUnderWay, OutcomeFollows, Batches
  <1>4. LossIsExplained'
    BY <1>1 DEF LossIsExplained
  <1>5. LogTellsOutcome'
    BY <1>1 DEF LogTellsOutcome, InBuffer, UnderWay
  <1>6. QED
    BY <1>2, <1>3, <1>4, <1>5

LEMMA DeleteKeeps ==
  ASSUME IInv, NEW a \in Automation, Delete(a)
  PROVE  IInv'
  <1> USE DEF IInv
  <1>1. /\ a \in alive /\ alive' = alive \ {a}
        /\ row' = [r \in Run |-> IF Owner[r] = a THEN "none" ELSE row[r]]
        /\ UNCHANGED <<phase, writer, buffer, sent, lost, dropped, outage, together, purged>>
    BY DEF Delete, process, history
  <1>2. TypeOK'
    BY <1>1 DEF TypeOK
  <1>3. NoEntryTwice' /\ WrittenInPhase' /\ OneBatchUnderWay' /\ OutcomeFollows'
    BY <1>1 DEF NoEntryTwice, WrittenInPhase, OneBatchUnderWay, OutcomeFollows, Batches
  <1>4. LossIsExplained'
    BY <1>1 DEF LossIsExplained
  <1>5. LogTellsOutcome'
    BY <1>1 DEF LogTellsOutcome, InBuffer, UnderWay
  <1>6. QED
    BY <1>2, <1>3, <1>4, <1>5

LEMMA ExitKeeps ==
  ASSUME IInv, Exit
  PROVE  IInv'
  <1> USE DEF IInv
  <1>1. /\ writer' = "down" /\ buffer' = <<>> /\ dropped' = dropped \cup Entries(buffer)
        /\ phase' = [r \in Run |-> IF phase[r] = "open" THEN "gone" ELSE phase[r]]
        /\ UNCHANGED <<sent, row, alive, lost, outage, together, purged>>
    BY DEF Exit
  <1>2. \A r \in Run : /\ phase'[r] = "closed" <=> phase[r] = "closed"
                       /\ phase'[r] = "new" <=> phase[r] = "new"
    BY <1>1
  <1>3. \A c \in Batches' : c \in sent \/ c = <<>>
    BY <1>1 DEF Batches
  <1>4. TypeOK'
    BY <1>1, EmptyBatch, EntriesOfBatch, BufferAssumption DEF TypeOK
  <1>5. NoEntryTwice'
    BY <1>3, EmptyBatch DEF NoEntryTwice, Batches
  <1>6. WrittenInPhase'
    <2>1. SUFFICES ASSUME NEW c \in Batches', NEW e \in Entries(c)
                   PROVE  phase'[e.run] # "new" /\ (e.status = "ended" => phase'[e.run] = "closed")
      BY DEF WrittenInPhase
    <2>2. c \in sent
      BY <1>3, EmptyBatch
    <2>3. e.run \in Run
      BY <2>2, EntriesOfBatch, EntryFields DEF TypeOK
    <2>4. QED
      BY <2>2, <2>3, <1>2 DEF WrittenInPhase, Batches
  <1>7. OneBatchUnderWay'
    BY <1>1 DEF OneBatchUnderWay
  <1>8. OutcomeFollows'
    <2>1. SUFFICES ASSUME NEW r \in Run \ together, NEW c \in Batches',
                          RunningOf(r) \in Entries(c), phase'[r] = "closed"
                   PROVE  EndedOf(r) \in Entries(c) \cup Entries(buffer') \cup lost \cup dropped'
      BY <1>1 DEF OutcomeFollows
    <2>2. c \in sent
      BY <2>1, <1>3, EmptyBatch
    <2>3. EndedOf(r) \in Entries(c) \cup Entries(buffer) \cup lost \cup dropped
      BY <2>1, <2>2, <1>2 DEF OutcomeFollows, Batches
    <2>4. QED
      BY <2>3, <1>1
  <1>9. LossIsExplained'
    BY <1>1 DEF LossIsExplained
  <1>10. LogTellsOutcome'
    BY <1>1, <1>2 DEF LogTellsOutcome, InBuffer, UnderWay
  <1>11. QED
    BY <1>4, <1>5, <1>6, <1>7, <1>8, <1>9, <1>10

LEMMA SameKeeps ==
  ASSUME IInv, UNCHANGED <<phase, buffer, sent, row, alive, history>>,
         writer' \in {"on", "off", "down"}
  PROVE  IInv'
  <1>1. UNCHANGED <<lost, dropped, outage, together, purged>>
    BY DEF history
  <1>2. QED
    BY <1>1 DEF IInv, TypeOK, NoEntryTwice, WrittenInPhase, OneBatchUnderWay, OutcomeFollows,
                LossIsExplained, LogTellsOutcome, Batches, InBuffer, UnderWay

-----------------------------------------------------------------------------
(* The steps of the engine and of the writer's own timer.                  *)

\* A step of run r that writes an entry of status x and moves r to phase q.
LEMMA EntryStep ==
  ASSUME IInv, NEW r \in Run, NEW x \in {"running", "ended"}, NEW q \in {"open", "closed"},
         phase[r] \in {"new", "open"},
         x = "running" <=> q = "open", x = "running" => phase[r] = "new",
         phase' = [phase EXCEPT ![r] = q],
         Write([run |-> r, status |-> x]),
         UNCHANGED <<writer, row, alive, lost, dropped, outage, purged>>
  PROVE  IInv'
  <1> USE DEF IInv
  <1> DEFINE e == [run |-> r, status |-> x]
             b == Append(buffer, e)
  <1>1. buffer \in Seq(Entry) /\ Len(buffer) < MaxBuffer /\ e \in Entry
    BY DEF TypeOK, Entry
  <1>2. e \notin Entries(buffer)
    BY DEF WrittenInPhase, Batches
  <1>3. NoRepeat(buffer)
    BY DEF NoEntryTwice, Batches
  <1>4. /\ b \in Seq(Entry) /\ Len(b) = Len(buffer) + 1 /\ NoRepeat(b)
        /\ Entries(b) = Entries(buffer) \cup {e}
    BY <1>1, <1>2, <1>3, AppendBatch
  <1>5. Len(b) <= MaxBuffer
    BY <1>1, <1>4, BufferAssumption
  <1>6. Sends(b)
    BY WriteSends
  <1>7. e.run = r /\ e.status = x /\ phase \in [Run -> {"new", "open", "closed", "gone"}]
    BY DEF TypeOK
  <1> HIDE DEF e, b
  <1>8. \A s \in Run : phase'[s] = IF s = r THEN q ELSE phase[s]
    BY <1>7
  <1>9. \A c \in sent \cup {b} : \A d \in Entries(c) :
          phase'[d.run] # "new" /\ (d.status = "ended" => phase'[d.run] = "closed")
    <2>1. SUFFICES ASSUME NEW c \in sent \cup {b}, NEW d \in Entries(c)
                   PROVE  phase'[d.run] # "new" /\ (d.status = "ended" => phase'[d.run] = "closed")
      OBVIOUS
    <2>2. CASE d = e
      BY <2>2, <1>7, <1>8
    <2>3. CASE \E c2 \in sent \cup {buffer} : d \in Entries(c2)
      <3>1. d.run \in Run
        BY <2>3, EntriesOfBatch, EntryFields DEF TypeOK
      <3>2. phase[d.run] # "new" /\ (d.status = "ended" => phase[d.run] = "closed")
        BY <2>3 DEF WrittenInPhase, Batches
      <3>3. CASE d.run = r
        BY <3>1, <3>2, <3>3, <1>8
      <3>4. CASE d.run # r
        BY <3>1, <3>2, <3>4, <1>8
      <3>5. QED
        BY <3>3, <3>4
    <2>4. QED
      BY <2>2, <2>3, <1>4
  <1>10. EndedOf(r) = e \/ q = "open"
    BY DEF EndedOf, e
  <1>11. \A s \in Run : phase'[s] = "closed" => phase[s] = "closed" \/ EndedOf(s) \in Entries(b)
    BY <1>4, <1>8, <1>10
  <1>12. \A s \in Run : phase[s] = "closed" => phase'[s] = "closed"
    BY <1>8
  <1>13. \A d \in Entries(b) \ Entries(buffer) : d.status = "ended" \/ phase'[d.run] # "closed"
    BY <1>4, <1>7, <1>8
  <1>14. phase' \in [Run -> {"new", "open", "closed", "gone"}] /\ writer' \in {"on", "off", "down"}
    BY <1>7 DEF TypeOK
  <1>15. Entries(buffer) \subseteq Entries(b)
    BY <1>4
  <1> HIDE DEF IInv
  <1>16. QED
    BY <1>4, <1>5, <1>6, <1>9, <1>11, <1>12, <1>13, <1>14, <1>15, SendStep

LEMMA FlushStep ==
  ASSUME IInv, Flush(buffer), writer' \in {"on", "off", "down"},
         UNCHANGED <<phase, row, alive, lost, dropped, outage, purged>>
  PROVE  IInv'
  <1>1. buffer \in Seq(Entry) /\ Len(buffer) <= MaxBuffer /\ NoRepeat(buffer)
    BY BufferAssumption DEF IInv, TypeOK, NoEntryTwice, Batches
  <1>2. \A c \in sent \cup {buffer} : \A e \in Entries(c) :
          phase'[e.run] # "new" /\ (e.status = "ended" => phase'[e.run] = "closed")
    BY DEF IInv, WrittenInPhase, Batches
  <1>3. phase' \in [Run -> {"new", "open", "closed", "gone"}]
    BY DEF IInv, TypeOK
  <1>4. Sends(buffer)
    BY DEF Sends
  <1>5. QED
    BY <1>1, <1>2, <1>3, <1>4, SendStep

LEMMA InitIInv == Init => IInv
  <1>1. SUFFICES ASSUME Init PROVE IInv
    OBVIOUS
  <1>2. TypeOK
    <2>1. buffer \in Seq(Entry) /\ Len(buffer) < MaxBuffer
      BY <1>1, BufferAssumption DEF Init
    <2>2. sent \subseteq Seq(Entry) /\ \A b \in sent : Len(b) <= MaxBuffer
      BY <1>1 DEF Init
    <2>3. QED
      BY <1>1, <2>1, <2>2 DEF Init, TypeOK
  <1>3. NoEntryTwice /\ WrittenInPhase /\ OneBatchUnderWay /\ OutcomeFollows
    BY <1>1, EmptyBatch DEF Init, NoEntryTwice, WrittenInPhase, OneBatchUnderWay, OutcomeFollows, Batches
  <1>4. LossIsExplained /\ LogTellsOutcome
    BY <1>1 DEF Init, LossIsExplained, LogTellsOutcome
  <1>5. QED
    BY <1>2, <1>3, <1>4 DEF IInv

LEMMA NextIInv == IInv /\ [Next]_vars => IInv'
  <1>1. SUFFICES ASSUME IInv, [Next]_vars PROVE IInv'
    OBVIOUS
  <1>2. ASSUME NEW r \in Run, Begin(r) PROVE IInv'
    BY <1>1, <1>2, EntryStep DEF Begin
  <1>3. ASSUME NEW r \in Run, Finish(r) PROVE IInv'
    BY <1>1, <1>3, EntryStep DEF Finish
  <1>4. ASSUME NEW r \in Run, AbortedAtStart(r) PROVE IInv'
    BY <1>1, <1>4, EntryStep DEF AbortedAtStart
  <1>5. CASE FlushTick
    BY <1>1, <1>5, FlushStep DEF FlushTick, IInv, TypeOK
  <1>6. CASE Stop
    <2>1. CASE buffer = <<>>
      <3>1. UNCHANGED <<phase, buffer, sent, row, alive, history>> /\ writer' = "off"
        BY <1>6, <2>1 DEF Stop, StopFlush, history
      <3>2. QED
        BY <3>1, <1>1, SameKeeps
    <2>2. CASE buffer # <<>>
      BY <1>1, <1>6, <2>2, FlushStep DEF Stop, StopFlush
    <2>3. QED
      BY <2>1, <2>2
  <1>7. CASE Exit
    BY <1>1, <1>7, ExitKeeps
  <1>8. CASE Boot
    <2>1. UNCHANGED <<phase, buffer, sent, row, alive, history>> /\ writer' = "on"
      BY <1>8 DEF Boot
    <2>2. QED
      BY <2>1, <1>1, SameKeeps
  <1>9. ASSUME NEW b \in sent, Settle(b) PROVE IInv'
    BY <1>1, <1>9, InsertedKeeps, LostKeeps DEF Settle
  <1>10. ASSUME NEW R \in SUBSET Run, Cleanup(R) PROVE IInv'
    BY <1>1, <1>10, CleanupKeeps
  <1>11. ASSUME NEW a \in Automation, Delete(a) PROVE IInv'
    BY <1>1, <1>11, DeleteKeeps
  <1>12. CASE UNCHANGED vars
    <2>1. UNCHANGED <<phase, buffer, sent, row, alive, history>> /\ writer' = writer
      BY <1>12 DEF vars, history
    <2>2. QED
      BY <2>1, <1>1, SameKeeps DEF IInv, TypeOK
  <1>13. QED
    BY <1>1, <1>2, <1>3, <1>4, <1>5, <1>6, <1>7, <1>8, <1>9, <1>10, <1>11, <1>12 DEF Next

LEMMA Invariance == Spec => []IInv
  BY InitIInv, NextIInv, PTL DEF Spec

-----------------------------------------------------------------------------
\* Every variable keeps its type: the buffer never holds MAX_BUFFER_SIZE entries between
\* two steps, and no batch holds more (write, flush).
THEOREM TypeCorrect == Spec => []TypeOK
  <1>1. IInv => TypeOK
    BY DEF IInv
  <1>2. QED
    BY <1>1, Invariance, PTL

\* The log tells the outcome of a finished run whose entries were neither lost nor raced
\* each other, for every buffer size and any number of batches under way.
THEOREM OutcomeIsLogged == Spec => []LogTellsOutcome
  <1>1. IInv => LogTellsOutcome
    BY DEF IInv
  <1>2. QED
    BY <1>1, Invariance, PTL

\* While the database answers, only batches with both entries of a run are lost.
THEOREM LossExplained == Spec => []LossIsExplained
  <1>1. IInv => LossIsExplained
    BY DEF IInv
  <1>2. QED
    BY <1>1, Invariance, PTL
=============================================================================

----------------------------- MODULE SpoolFile -----------------------------
(***************************************************************************)
(* The bytes of one spool segment: Append, AppendBatch and ReadRecordsFrom *)
(* of internal/spool/spool.go, when a write may be cut short (disk full, a *)
(* kill or a power loss in the middle of it).                              *)
(*                                                                         *)
(* A record is written as two chunks, neither of which decodes on its own, *)
(* followed by the newline chunk; offsets count chunks as the code counts  *)
(* bytes.  O_APPEND continues after whatever a torn write left behind.     *)
(***************************************************************************)
EXTENDS Integers, Sequences, FiniteSets, SequencesExt

CONSTANTS SfMaxRecords,  \* bound: records ever given to Append
          SfMaxBatch,    \* bound: records of one AppendBatch
          MaxTears,    \* bound: torn writes
          SfMaxCrashes   \* bound: restarts of the worker

ASSUME SpoolFileAssumption ==
  SfMaxRecords \in Nat /\ SfMaxBatch \in Nat \ {0} /\ MaxTears \in Nat /\ SfMaxCrashes \in Nat

Recs == 1..SfMaxRecords
NL == <<0, 0>>
Line(r) == << <<r, 1>>, <<r, 2>>, NL >>
Many == 2   \* stored counts saturate here: "more than once"

VARIABLES file,     \* the segment's chunks
          offset,   \* the worker's position, as persisted in cursor.json
          entries,  \* the records the current tick has read and not handled
          given,    \* how many records were given to Append
          accepted, \* the records whose Append returned nil
          stored,   \* how often each record was stored
          tears, crashes

sfVars == <<file, offset, entries, given, accepted, stored, tears, crashes>>

SfTypeOK ==
  /\ \A i \in 1..Len(file) : file[i] \in (Recs \X {1, 2}) \cup {NL}
  /\ offset \in Nat
  /\ \A i \in 1..Len(entries) : entries[i] \in Recs \X Nat
  /\ given \in 0..SfMaxRecords /\ accepted \subseteq 1..given
  /\ stored \in [Recs -> 0..Many]
  /\ tears \in 0..MaxTears /\ crashes \in 0..SfMaxCrashes

SfInit == /\ file = <<>> /\ offset = 0 /\ entries = <<>> /\ given = 0 /\ accepted = {}
          /\ stored = [r \in Recs |-> 0] /\ tears = 0 /\ crashes = 0

-----------------------------------------------------------------------------
\* bufio.Scanner from offset: the positions at which a line ends.  An offset
\* past the end restarts the file; the last line may lack its newline, and is
\* counted as if it had one.
Start(f, off) == IF off > Len(f) THEN 0 ELSE off

LineEnds(f, off) ==
  {i \in (Start(f, off) + 1)..Len(f) : f[i] = NL}
    \cup (IF Len(f) > Start(f, off) /\ f[Len(f)] # NL THEN {Len(f) + 1} ELSE {})

LineStart(f, off, e) ==
  1 + Max({Start(f, off)} \cup {i \in LineEnds(f, off) : i < e})

\* json.Unmarshal succeeds on the two chunks of one record and on nothing else.
Decodes(line) == /\ Len(line) = 2
                 /\ \E r \in Recs : line = << <<r, 1>>, <<r, 2>> >>

\* The lines from off on that satisfy the test, each with the offset after it.
Lines(f, off, Good(_, _)) ==
  LET ends == LineEnds(f, off)
      text == [e \in ends |-> SubSeq(f, LineStart(f, off, e), e - 1)]
      good == {e \in ends : Good(text, e)}
      nth(i) == CHOOSE e \in good : Cardinality({d \in good : d <= e}) = i
  IN  [i \in 1..Cardinality(good) |-> <<text[nth(i)][1][1], nth(i)>>]

\* Mutant: a line that does not decode ends the read.
StopsAtCorruptLine(f, off) ==
  Lines(f, off, LAMBDA text, e : \A d \in DOMAIN text : d <= e => Decodes(text[d]))

\* ReadRecordsFrom: every line that decodes.
ReadRecordsFrom(f, off) == Lines(f, off, LAMBDA text, e : Decodes(text[e]))

-----------------------------------------------------------------------------
\* The next k records as AppendBatch marshals them.
Payload(k) == [i \in 1..(3 * k) |-> Line(given + 1 + ((i - 1) \div 3))[1 + ((i - 1) % 3)]]

\* Mutant: one record more than was written is reported as accepted.
AcceptsOneMore(k) ==
  /\ given + k <= SfMaxRecords
  /\ file' = file \o Payload(k)
  /\ given' = given + k
  /\ accepted' = accepted \cup (given + 1)..(given + k + 1)
  /\ UNCHANGED <<offset, entries, stored, tears, crashes>>

\* Append / AppendBatch of the next k records, written and synced.
AppendBatch(k) ==
  /\ given + k <= SfMaxRecords
  /\ file' = file \o Payload(k)
  /\ given' = given + k
  /\ accepted' = accepted \cup (given + 1)..(given + k)
  /\ UNCHANGED <<offset, entries, stored, tears, crashes>>

\* Only a part of the payload reached the file; the caller got an error, or
\* nothing at all.
TornAppend(k) ==
  /\ tears < MaxTears /\ given + k <= SfMaxRecords
  /\ \E n \in 1..(Len(Payload(k)) - 1) : file' = file \o SubSeq(Payload(k), 1, n)
  /\ given' = given + k
  /\ tears' = tears + 1
  /\ UNCHANGED <<offset, entries, accepted, stored, crashes>>

\* The worker's tick reads everything past its position.
SfTick ==
  /\ entries = <<>>
  /\ entries' = ReadRecordsFrom(file, offset)
  /\ UNCHANGED <<file, offset, given, accepted, stored, tears, crashes>>

\* Mutant: the newline is counted twice in the new position.
HandleLong ==
  /\ entries # <<>>
  /\ stored' = [stored EXCEPT ![Head(entries)[1]] = IF @ < Many THEN @ + 1 ELSE @]
  /\ offset' = Head(entries)[2] + 1
  /\ entries' = Tail(entries)
  /\ UNCHANGED <<file, given, accepted, tears, crashes>>

\* processEntry and advanceCursor for one record.
Handle ==
  /\ entries # <<>>
  /\ stored' = [stored EXCEPT ![Head(entries)[1]] = IF @ < Many THEN @ + 1 ELSE @]
  /\ offset' = Head(entries)[2]
  /\ entries' = Tail(entries)
  /\ UNCHANGED <<file, given, accepted, tears, crashes>>

\* The process stops and starts again at the persisted offset.
SfCrash ==
  /\ crashes < SfMaxCrashes
  /\ crashes' = crashes + 1
  /\ entries' = <<>>
  /\ UNCHANGED <<file, offset, given, accepted, stored, tears>>

SfNext == \/ \E k \in 1..SfMaxBatch : AppendBatch(k) \/ TornAppend(k)
          \/ SfTick \/ Handle \/ SfCrash

SfSpec == SfInit /\ [][SfNext]_sfVars

\* The worker ticks every second and handles what it read.
SfFairSpec == SfSpec /\ WF_sfVars(SfTick) /\ WF_sfVars(Handle)

-----------------------------------------------------------------------------
Readable == {entries[i][1] : i \in 1..Len(entries)}
              \cup {x[1] : x \in Range(ReadRecordsFrom(file, offset))}

Gone == {r \in accepted : stored[r] = 0 /\ r \notin Readable}

\* Torn writes damage at most their neighbour: every accepted record that the
\* worker can neither have stored nor read any more is paid for by a tear.
DamageBounded == Cardinality(Gone) <= tears

\* overview.md: "no record is silently dropped" if the process crashes.
NoAcceptedRecordDropped == Gone = {}

\* Without a restart a record is stored once.
StoredOnce == crashes = 0 => \A r \in Recs : stored[r] <= 1

\* The record has a line of its own in the file.
Intact(r) ==
  \E i \in 1..(Len(file) - 1) :
    /\ file[i] = <<r, 1>> /\ file[i + 1] = <<r, 2>>
    /\ i > 1 => file[i - 1] = NL
    /\ i + 2 <= Len(file) => file[i + 2] = NL

\* Whatever torn writes left in the file before or behind it, the worker reads on
\* and stores every accepted record that has a line of its own.
StoredUnlessDamaged == \A r \in Recs : r \in accepted /\ Intact(r) ~> stored[r] > 0
=============================================================================

----------------------------- MODULE NightsProofs -----------------------------
(***************************************************************************)
(* Proofs about Nights, for any number of days, messages, failures,        *)
(* crashes and entries: a day is consolidated once it is over and gone     *)
(* over once, and her own section of the profile is changed in reflection  *)
(* turns only, always in an entry the turn was shown, but for texts of     *)
(* several lines.  The second part is about Moments: what wakes her, and   *)
(* the entries of her schedule.                                            *)
(***************************************************************************)
EXTENDS Nights, Moments, FiniteSetTheorems, WellFoundedInduction, SequenceTheorems, TLAPS

\* Nothing is open below the watermark, notes are of days that are over, from
\* all that is given of them, and the saved watermark is never behind.
Sealed ==
    /\ mem.upto < today /\ disk.upto = mem.upto
    /\ \A d \in Days : d > today => ~HasFile(d)
    /\ \A d \in Days : notes[d] = {} \/ (d < today /\ notes[d] = NotedFrom(d))

\* The day at work is over, not done, and the first such day.
NextInLine ==
    night \in {"reading", "indexing", "ended", "failed"} =>
        /\ mem.upto < target /\ target < today
        /\ \A d \in Days : mem.upto < d /\ d < target => ~HasFile(d)

\* What the agent reads and what it wrote is all that is given of that day.
Faithful ==
    /\ night = "reading" => heard = GivenOf(lines[target])
    /\ night \in {"indexing", "ended"} => notes[target] = NotedFrom(target)

KeptBelow == \A d \in Days : kept[d] > 0 => d <= mem.upto

\* A turn of the owner's has his message.
Served == turn = "owner" => inbox > 0

DInv == PassedDaysAreNoted /\ KeptOnce /\ Sealed /\ NextInLine /\ Faithful /\ KeptBelow

IInv == TypeOK /\ DInv /\ Served

\* While every text was read back as it was written, a turn has seen her own
\* section as it is, for only its own edits change it.
SelfShown ==
    mangled = 0 => /\ turn # "none" => AllOf(profile["self"]) \subseteq page
                  /\ ~mistaken

USE NightsAssumption

-----------------------------------------------------------------------------
(* Operators                                                                *)

\* A set of numbers has a least one, and it is the one Min picks.
LEMMA MinIsLeast ==
  ASSUME NEW S \in SUBSET Nat, S # {}
  PROVE  Min(S) \in S /\ \A x \in S : Min(S) <= x
<1> DEFINE T == {1..d : d \in S}
           R == StrictSubsetOrdering(Nat)
<1>1. T # {}
  OBVIOUS
<1>2. T \subseteq FiniteSubsetsOf(Nat)
  <2> SUFFICES ASSUME NEW d \in S PROVE 1..d \in FiniteSubsetsOf(Nat)
    OBVIOUS
  <2>1. IsFiniteSet(1..d) /\ 1..d \in SUBSET Nat
    BY FS_Interval
  <2> QED BY <2>1 DEF FiniteSubsetsOf
<1>3. IsWellFoundedOn(R, FiniteSubsetsOf(Nat))
  BY FS_StrictSubsetOrderingWellFounded
<1>4. PICK x \in T : \A y \in T : <<y, x>> \notin R
  <2> HIDE DEF T, R
  <2> QED BY <1>1, <1>2, <1>3, WFMin
<1>5. PICK d \in S : x = 1..d
  OBVIOUS
<1>6. \A e \in S : d <= e
  <2> SUFFICES ASSUME NEW e \in S, e < d PROVE FALSE
    OBVIOUS
  <2>1. /\ 1..e \in T /\ 1..e \subseteq x /\ 1..e # x /\ 1..e \in SUBSET Nat /\ x \in SUBSET Nat
    <3>1. d \in 1..d /\ d \notin 1..e
      OBVIOUS
    <3> QED BY <1>5, <3>1
  <2>2. <<1..e, x>> \in R
    BY <2>1 DEF StrictSubsetOrdering
  <2> QED BY <1>4, <2>1, <2>2
<1>7. \E m \in S : \A e \in S : m <= e
  BY <1>6
<1> QED BY <1>7 DEF Min

\* The trigger takes the first day that is over, has lines and is not done.
LEMMA PickIsNext ==
  ASSUME PickTarget # Nobody
  PROVE  /\ PickTarget \in Candidates
         /\ \A d \in Candidates : PickTarget <= d
<1>1. Candidates # {} /\ PickTarget = Min(Candidates)
  BY DEF PickTarget
<1>2. Candidates \in SUBSET Nat
  BY DEF Candidates, Days
<1> QED BY <1>1, <1>2, MinIsLeast

\* An edit leaves a profile, and the page of who made it is one.
\* A part of a sequence of numbers is one.
LEMMA PartIsSeq ==
  ASSUME NEW S, NEW seq \in Seq(S), NEW m \in Nat \ {0}, NEW n \in 0..Len(seq)
  PROVE  SubSeq(seq, m, n) \in Seq(S)
<1>1. \A i \in m..n : seq[i] \in S
  <2> SUFFICES ASSUME NEW i \in m..n PROVE seq[i] \in S
    OBVIOUS
  <2>1. Len(seq) \in Nat
    BY LenProperties
  <2>2. i \in 1..Len(seq)
    BY <2>1
  <2> QED BY <2>2, ElementOfSeq
<1> QED BY <1>1, SubSeqProperties

LEMMA GivenIsTranscript ==
  ASSUME NEW seq \in Transcripts
  PROVE  GivenOf(seq) \in Transcripts
<1> DEFINE m == IF Len(seq) > TailLines THEN Len(seq) - TailLines + 1 ELSE 1
<1>1. Len(seq) \in Nat
  BY LenProperties DEF Transcripts
<1>2. m \in Nat \ {0} /\ Len(seq) \in 0..Len(seq)
  BY <1>1
<1> QED BY <1>2, PartIsSeq DEF GivenOf, Transcripts

\* What stands before a line of a section and after it.
LEMMA PartsOfSection ==
  ASSUME TypeOK, NEW s \in Sections, NEW i \in 1..(Len(profile[s]) + 1)
  PROVE  Before(s, i) \in Seq(Nat) /\ After(s, i) \in Seq(Nat)
<1>1. profile[s] \in Seq(Nat) /\ Len(profile[s]) \in Nat
  BY LenProperties DEF TypeOK
<1>2. /\ i - 1 \in 0..Len(profile[s]) /\ i + 1 \in Nat \ {0}
      /\ Len(profile[s]) \in 0..Len(profile[s])
  BY <1>1
<1> QED BY <1>1, <1>2, PartIsSeq DEF Before, After

LEMMA RereadKeepsShape ==
  ASSUME TypeOK, NEW s \in Sections, NEW head \in Seq(Nat), NEW z, NEW rest \in Seq(Nat)
  PROVE  /\ Reread(s, head, z, rest) \in [Sections -> Seq(Nat)]
         /\ z = s => \A p \in Sections : p # s => Reread(s, head, z, rest)[p] = profile[p]
<1>1. ASSUME NEW p \in Sections
      PROVE  profile[p] \o rest \in Seq(Nat) /\ rest \o profile[p] \in Seq(Nat)
             /\ head \o rest \in Seq(Nat) /\ profile[p] \in Seq(Nat)
  BY ConcatProperties DEF TypeOK
<1> QED BY <1>1 DEF Reread

\* An edit of a section leaves a profile, and if its text is read back as it was
\* written, every other section as it is.
LEMMA WriteKeepsShape ==
  ASSUME TypeOK, NEW s \in Sections, NEW i \in 1..(Len(profile[s]) + 1), NEW n, Write(s, i, n)
  PROVE  /\ profile' \in [Sections -> Seq(Nat)] /\ texts' \in Nat
         /\ mangled' = mangled \/ mangled' = mangled + 1
         /\ mangled' = mangled => \A p \in Sections : p # s => profile'[p] = profile[p]
<1> DEFINE new == texts + 1
<1>1. new \in Nat /\ mangled \in Nat /\ <<new>> \in Seq(Nat)
  BY DEF TypeOK
<1>2. Before(s, i) \in Seq(Nat) /\ After(s, i) \in Seq(Nat)
  BY PartsOfSection
<1>3. Before(s, i) \o <<new>> \in Seq(Nat) /\ <<new>> \o After(s, i) \in Seq(Nat)
  BY <1>1, <1>2, ConcatProperties
<1> HIDE DEF new
<1>4. ASSUME mangled' = mangled,
             profile' = Reread(s, Before(s, i) \o <<new>>, s, After(s, i))
      PROVE  /\ profile' \in [Sections -> Seq(Nat)]
             /\ \A p \in Sections : p # s => profile'[p] = profile[p]
  <2> DEFINE head == Before(s, i) \o <<new>>
              next == Reread(s, head, s, After(s, i))
  <2>1. /\ next \in [Sections -> Seq(Nat)]
        /\ \A p \in Sections : p # s => next[p] = profile[p]
    <3> HIDE DEF head
    <3>1. head \in Seq(Nat)
      BY <1>3 DEF head
    <3> QED BY <1>2, <3>1, RereadKeepsShape
  <2>2. profile' = next /\ mangled' = mangled
    BY <1>4
  <2> HIDE DEF next
  <2> QED BY <2>1, <2>2
<1>5. ASSUME NEW z, mangled' = mangled + 1,
             profile' = Reread(s, Before(s, i) \o <<new>>, z, <<new>> \o After(s, i))
      PROVE  profile' \in [Sections -> Seq(Nat)]
  BY <1>3, <1>5, RereadKeepsShape
<1>6. texts' \in Nat
  BY <1>1 DEF Write, new
<1>7. mangled + 1 # mangled
  BY <1>1
<1> QED BY <1>4, <1>5, <1>6, <1>7 DEF Write, new

LEMMA EditsKeepShape ==
  ASSUME TypeOK, NEW s \in Sections,
         \/ AddEntry(s)
         \/ \E i \in DOMAIN profile[s] : ReplaceEntry(s, i) \/ RemoveEntry(s, i)
  PROVE  /\ profile' \in [Sections -> Seq(Nat)] /\ texts' \in Nat
         /\ mangled' = mangled \/ mangled' = mangled + 1
         /\ mangled' = mangled => \A p \in Sections : p # s => profile'[p] = profile[p]
<1>1. profile[s] \in Seq(Nat) /\ Len(profile[s]) \in Nat /\ DOMAIN profile[s] = 1..Len(profile[s])
  BY LenProperties DEF TypeOK
<1>2. CASE AddEntry(s)
  <2>1. Len(profile[s]) + 1 \in 1..(Len(profile[s]) + 1)
    BY <1>1
  <2> QED BY <1>2, <2>1, WriteKeepsShape DEF AddEntry
<1>3. ASSUME NEW i \in DOMAIN profile[s], ReplaceEntry(s, i) \/ RemoveEntry(s, i)
      PROVE  /\ profile' \in [Sections -> Seq(Nat)] /\ texts' \in Nat
             /\ mangled' = mangled \/ mangled' = mangled + 1
             /\ mangled' = mangled => \A p \in Sections : p # s => profile'[p] = profile[p]
  <2>1. i \in 1..(Len(profile[s]) + 1)
    BY <1>1
  <2>2. CASE ReplaceEntry(s, i)
    BY <2>1, <2>2, WriteKeepsShape DEF ReplaceEntry
  <2>3. CASE RemoveEntry(s, i)
    <3>1. Before(s, i) \o After(s, i) \in Seq(Nat)
      BY <2>1, PartsOfSection, ConcatProperties
    <3> QED BY <2>3, <3>1 DEF RemoveEntry, TypeOK
  <2> QED BY <1>3, <2>2, <2>3
<1> QED BY <1>2, <1>3

-----------------------------------------------------------------------------
(* Types                                                                    *)

LEMMA RestKeepsShape ==
  ASSUME Rest
  PROVE  night' = "sleep" /\ target' = Nobody /\ heard' \in Transcripts
BY EmptySeq DEF Rest, Transcripts

LEMMA TranscribedIsLines ==
  ASSUME TypeOK, NEW speaker \in {"owner", "me"}
  PROVE  Transcribed(speaker) \subseteq [Days -> Transcripts]
<1>1. lines[today] \in Transcripts
  BY DEF TypeOK
<1>2. Append(lines[today], speaker) \in Transcripts
  BY <1>1, AppendProperties DEF Transcripts
<1> QED BY <1>2 DEF TypeOK, Transcribed

LEMMA PageKeepsShape ==
  ASSUME TypeOK
  PROVE  AllOf(profile["self"]) \subseteq Nat
<1>1. profile["self"] \in Seq(Nat)
  BY DEF TypeOK, Sections
<1> QED BY <1>1, ElementOfSeq, LenProperties DEF AllOf

\* The state of the mind after a turn of the owner's, and after a day is done.
LEMMA OneMoreTurn ==
  ASSUME NEW m \in States
  PROVE  [m EXCEPT !.turns = @ + 1] \in States
<1>1. /\ m.turns \in Nat /\ m.last \in Nat /\ m.upto \in 0..LastDay /\ m.hot \in BOOLEAN
      /\ m = [turns |-> m.turns, last |-> m.last, upto |-> m.upto, hot |-> m.hot]
  BY DEF States
<1>2. [m EXCEPT !.turns = @ + 1] = [turns |-> m.turns + 1, last |-> m.last, upto |-> m.upto, hot |-> m.hot]
  BY DEF States
<1>3. m.turns + 1 \in Nat
  BY <1>1
<1> QED BY <1>1, <1>2, <1>3 DEF States

LEMMA OneMoreDay ==
  ASSUME NEW m \in States, NEW d \in 0..LastDay
  PROVE  [m EXCEPT !.last = m.turns, !.upto = d] \in States
<1> DEFINE n == [m EXCEPT !.last = m.turns]
<1>1. n \in States
  <2>1. n = [turns |-> m.turns, last |-> m.turns, upto |-> m.upto, hot |-> m.hot]
    BY DEF States
  <2> QED BY <2>1 DEF States
<1>2. [n EXCEPT !.upto = d] \in States
  <2> HIDE DEF n
  <2>1. [n EXCEPT !.upto = d] = [turns |-> n.turns, last |-> n.last, upto |-> d, hot |-> n.hot]
    BY <1>1 DEF States
  <2> QED BY <1>1, <2>1 DEF States
<1>3. [n EXCEPT !.upto = d] = [m EXCEPT !.last = m.turns, !.upto = d]
  OBVIOUS
<1> QED BY <1>2, <1>3

LEMMA OneMoreKept ==
  ASSUME NEW k \in [Days -> Nat], NEW d \in Days
  PROVE  [k EXCEPT ![d] = @ + 1] \in [Days -> Nat]
OBVIOUS

LEMMA TypeStep ==
  ASSUME TypeOK, Sealed, NextInLine, Served, [Next]_vars
  PROVE  TypeOK' /\ Served'
<1> USE DEF TypeOK, calendar, state, mind, trigger, store
<1>0. CASE UNCHANGED vars
  BY <1>0 DEF vars, Served
<1>18. CASE Midnight
  <2>1. today' \in Days
    <3>1. today' = today + 1 /\ today < LastDay /\ today \in 1..LastDay
      BY <1>18 DEF Midnight, Days
    <3> QED BY <3>1, NightsAssumption DEF Days
  <2>2. UNCHANGED <<lines, acted, notes, state, up, idle, inbox, mind, trigger, store, kept>>
    BY <1>18 DEF Midnight
  <2> QED BY <2>1, <2>2 DEF Served
<1>1. CASE Quiet
  BY <1>1 DEF Quiet, Served
<1>2. CASE Cool
  BY <1>2 DEF Cool, States, Served
<1>3. CASE OwnerSpeaks
  BY <1>3 DEF OwnerSpeaks, CancelCurrent, Served
<1>4. ASSUME NEW kind \in Kinds, StartTurn(kind) PROVE TypeOK' /\ Served'
  <2>1. lines' \in [Days -> Transcripts]
    BY <1>4, TranscribedIsLines DEF StartTurn
  <2>2. mem' \in States
    BY <1>4, OneMoreTurn DEF StartTurn
  <2>3. page' \subseteq Nat
    BY <1>4, PageKeepsShape DEF StartTurn
  <2> QED BY <1>4, <2>1, <2>2, <2>3 DEF StartTurn, Served
<1>5. CASE PinSelf
  <2>1. /\ UNCHANGED <<calendar, notes, state, up, idle, inbox, turn, trigger, kept>>
        /\ \/ \E s \in Sections : PinAdd(s)
           \/ \E named, s \in Sections : \E i \in DOMAIN profile[s] : PinEdit(named, s, i)
        /\ Learn
    BY <1>5 DEF PinSelf
  <2>2. /\ profile' \in [Sections -> Seq(Nat)] /\ texts' \in Nat
        /\ mangled' = mangled \/ mangled' = mangled + 1
    BY <2>1, EditsKeepShape DEF PinAdd, PinEdit
  <2>3. mistaken' \in BOOLEAN
    <3>1. mistaken' = mistaken \/ \E s \in Sections : \E i \in DOMAIN profile[s] : Hits(s, i)
      BY <2>1 DEF PinAdd, PinEdit
    <3> QED BY <3>1, Zenon DEF Hits
  <2>4. AllOf(profile'["self"]) \subseteq Nat
    <3>1. profile'["self"] \in Seq(Nat)
      BY <2>2 DEF Sections
    <3> QED BY <3>1, ElementOfSeq, LenProperties DEF AllOf
  <2>5. page' \subseteq Nat
    BY <2>1, <2>4 DEF Learn
  <2>6. mangled' \in Nat
    BY <2>2
  <2> QED BY <2>1, <2>2, <2>3, <2>5, <2>6 DEF Served
<1>6. CASE EndTurn
  <2>1. lines' \in [Days -> Transcripts] /\ acted' \subseteq Days
    BY <1>6, TranscribedIsLines DEF EndTurn
  <2>2. /\ idle' = FALSE /\ disk' = mem /\ turn' = "none" /\ page' = {}
        /\ inbox' = IF turn = "owner" THEN inbox - 1 ELSE inbox
        /\ UNCHANGED <<today, notes, mem, up, trigger, store, kept>>
    BY <1>6 DEF EndTurn
  <2>3. inbox' \in Nat
    BY <2>2 DEF Served
  <2> QED BY <2>1, <2>2, <2>3 DEF Served
<1>7. CASE Poll
  BY <1>7 DEF Poll, MaybeRestored, Served
<1>19. CASE Begins
  <2>1. disk' \in States /\ mem' \in States
    <3>1. mem' \in States
      BY <1>19 DEF Begins, States
    <3>2. disk' \in {disk, mem, mem'}
      BY <1>19 DEF Begins, MaybeRestored
    <3> QED BY <3>1, <3>2
  <2>2. PickTarget # Nobody => PickTarget \in Days /\ PickTarget # 0
    BY PickIsNext DEF Candidates, Days
  <2>3. /\ UNCHANGED <<calendar, notes, up, idle, inbox, mind, axed, store, kept>>
        /\ night = "sleep" /\ (axed => night \in Working)
    BY <1>19 DEF Begins
  <2>4. \/ UNCHANGED <<night, target, heard>>
        \/ /\ PickTarget # Nobody /\ night' = "reading" /\ target' = PickTarget
           /\ heard' = GivenOf(lines[PickTarget])
    BY <1>19 DEF Begins
  <2>5. CASE UNCHANGED <<night, target, heard>>
    BY <2>1, <2>3, <2>5 DEF Served
  <2>6. CASE ~UNCHANGED <<night, target, heard>>
    <3>1. night' = "reading" /\ target' \in Days /\ target' # 0
      BY <2>2, <2>4, <2>6
    <3>2. heard' \in Transcripts
      BY <2>2, <2>4, <2>6, GivenIsTranscript
    <3>3. target' \in 0..LastDay /\ target' # Nobody
      BY <3>1, NightsAssumption DEF Days, Nobody
    <3>4. ~axed
      BY <2>3 DEF Working
    <3> QED BY <2>1, <2>3, <3>1, <3>2, <3>3, <3>4 DEF Served, Working
  <2> QED BY <2>5, <2>6
<1>8. CASE Reports
  <2>1. notes' \in [Days -> SUBSET Transcripts]
    BY <1>8 DEF Reports
  <2> QED BY <1>8, <2>1 DEF Reports, Served, Working
<1>9. CASE Indexed
  BY <1>9 DEF Indexed, Served, Working
<1>10. CASE Fails
  BY <1>10 DEF Fails, Served, Working
<1>11. CASE CycleOn
  <2>1. mem' \in States
    <3>1. mem \in States /\ target \in 0..LastDay
      OBVIOUS
    <3>2. mem' = [mem EXCEPT !.last = mem.turns, !.upto = target]
      BY <1>11, Zenon DEF CycleOn
    <3> QED BY <3>1, <3>2, OneMoreDay, Zenon
  <2>2. target \in Days
    BY <1>11, SMTT(30) DEF CycleOn, Days, Nobody
  <2>3. kept' \in [Days -> Nat]
    <3>1. kept' = [kept EXCEPT ![target] = @ + 1]
      BY <1>11 DEF CycleOn
    <3>2. kept \in [Days -> Nat]
      OBVIOUS
    <3> QED BY <3>1, <3>2, <2>2, OneMoreKept, Zenon
  <2>4. ~axed
    BY <1>11 DEF CycleOn, Working
  <2> QED BY <1>11, <2>1, <2>2, <2>3, <2>4 DEF CycleOn, Served, Working
<1>12. CASE CycleEnds
  BY <1>12, RestKeepsShape DEF CycleEnds, Served, Working, Nobody
<1>13. CASE KeeperEdits
  <2>1. /\ UNCHANGED <<calendar, notes, state, up, idle, inbox, mind, trigger, mistaken, kept>>
        /\ \/ AddEntry("owner")
           \/ \E i \in DOMAIN profile["owner"] : ReplaceEntry("owner", i) \/ RemoveEntry("owner", i)
    BY <1>13 DEF KeeperEdits
  <2>2. /\ profile' \in [Sections -> Seq(Nat)] /\ texts' \in Nat
        /\ mangled' = mangled \/ mangled' = mangled + 1
    BY <2>1, EditsKeepShape DEF Sections
  <2>3. mangled' \in Nat
    BY <2>2
  <2> QED BY <2>1, <2>2, <2>3 DEF Served
<1>14. CASE KeeperEnds
  BY <1>14, RestKeepsShape DEF KeeperEnds, Served, Working, Nobody
<1>15. CASE Unwinds
  <2>1. /\ axed' = FALSE /\ disk' = mem
        /\ UNCHANGED <<calendar, notes, mem, up, idle, inbox, mind, store, kept>>
    BY <1>15 DEF Unwinds
  <2>2. night' = "sleep" /\ target' = 0 /\ heard' \in Transcripts
    BY <1>15, RestKeepsShape DEF Unwinds, Nobody
  <2>3. /\ target' \in 0..LastDay /\ (target' = Nobody <=> night' = "sleep")
    BY <2>2 DEF Nobody
  <2>4. axed' \in BOOLEAN /\ ~axed'
    BY <2>1, Zenon
  <2> QED BY <2>1, <2>2, <2>3, <2>4 DEF Served
<1>16. CASE Crash
  <2>1. /\ up' = FALSE /\ turn' = "none" /\ page' = {} /\ axed' = FALSE
        /\ UNCHANGED <<calendar, notes, state, idle, inbox, store, kept>>
    BY <1>16 DEF Crash
  <2>2. night' = "sleep" /\ target' = 0 /\ heard' \in Transcripts
    BY <1>16, RestKeepsShape DEF Crash, Nobody
  <2>3. /\ target' \in 0..LastDay /\ (target' = Nobody <=> night' = "sleep")
    BY <2>2 DEF Nobody
  <2>4. axed' \in BOOLEAN /\ ~axed' /\ up' \in BOOLEAN
    BY <2>1, Zenon
  <2> QED BY <2>1, <2>2, <2>3, <2>4 DEF Served
<1>17. CASE Boot
  BY <1>17 DEF Boot, Served
<1> QED BY <1>0, <1>1, <1>2, <1>3, <1>4, <1>5, <1>6, <1>7, <1>8, <1>9, <1>10, <1>11, <1>12, <1>13,
           <1>14, <1>15, <1>16, <1>17, <1>18, <1>19 DEF Next

-----------------------------------------------------------------------------
(* Days                                                                     *)

\* A step that writes neither a transcript nor notes and leaves the watermark.
LEMMA AsideStep ==
  ASSUME TypeOK, DInv, UNCHANGED <<today, lines, acted, notes, kept>>,
         mem'.upto = mem.upto, disk'.upto = mem.upto,
         \/ night' = "sleep"
         \/ UNCHANGED <<night, target, heard>>
         \/ night \in {"reading", "indexing"} /\ night' = "failed" /\ target' = target
         \/ night = "indexing" /\ night' = "ended" /\ target' = target
  PROVE  DInv'
<1> USE DEF NotedFrom, HasFile
<1>1. PassedDaysAreNoted' /\ KeptOnce' /\ KeptBelow' /\ Sealed'
  BY DEF DInv, PassedDaysAreNoted, KeptOnce, KeptBelow, Sealed
<1>2. NextInLine' /\ Faithful'
  BY DEF DInv, NextInLine, Faithful
<1> QED BY <1>1, <1>2 DEF DInv

\* A line more in today's file, which nobody has read yet.
LEMMA TodayStep ==
  ASSUME TypeOK, DInv,
         \A d \in Days : d # today => lines'[d] = lines[d] /\ (d \in acted' <=> d \in acted),
         UNCHANGED <<today, notes, kept, night, target, heard>>,
         mem'.upto = mem.upto, disk'.upto = mem.upto
  PROVE  DInv'
<1>1. /\ \A d \in Days : d # today => /\ NotedFrom(d)' = NotedFrom(d)
                                      /\ HasFile(d)' <=> HasFile(d)
                                      /\ GivenOf(lines'[d]) = GivenOf(lines[d])
      /\ today \in Nat /\ mem.upto \in Nat /\ \A d \in Days : d \in Nat
      /\ \A d \in Days : d < today \/ d > today => d # today
  BY DEF TypeOK, Days, States, NotedFrom, HasFile
<1>2. PassedDaysAreNoted'
  <2>1. \A d \in Days : d <= mem.upto => d # today
    BY <1>1 DEF DInv, Sealed
  <2> QED BY <1>1, <2>1 DEF DInv, PassedDaysAreNoted, Sealed
<1>3. KeptOnce' /\ KeptBelow'
  <2>1. \A d \in Days : kept[d] > 0 => d # today
    BY <1>1 DEF DInv, Sealed, KeptBelow
  <2>2. \A d \in Days : kept[d] = 1 => kept[d] > 0
    OBVIOUS
  <2> QED BY <1>1, <2>1, <2>2 DEF DInv, KeptOnce, KeptBelow
<1>4. Sealed'
  BY <1>1 DEF DInv, Sealed
<1>5. NextInLine' /\ Faithful'
  <2>1. night \in {"reading", "indexing", "ended", "failed"} =>
          /\ target \in Days /\ target < today
          /\ \A d \in Days : d < target => d < today
    BY <1>1 DEF DInv, NextInLine, TypeOK, Days, Nobody
  <2> QED BY <1>1, <2>1 DEF DInv, NextInLine, Faithful
<1> QED BY <1>2, <1>3, <1>4, <1>5 DEF DInv

\* Of the days below the one at work, those not done have no file.
LEMMA CycleOnStep ==
  ASSUME TypeOK, DInv, CycleOn
  PROVE  DInv'
<1>1. /\ night = "ended" /\ night' = "keeping" /\ UNCHANGED <<today, lines, acted, notes, target, heard>>
      /\ mem'.upto = target /\ disk'.upto = target
      /\ kept' = [kept EXCEPT ![target] = @ + 1]
  BY DEF CycleOn, calendar, TypeOK, States
<1>2. /\ target \in Days /\ target < today /\ mem.upto < target /\ mem.upto \in Nat
      /\ notes[target] = NotedFrom(target) /\ \A d \in Days : d \in Nat
      /\ \A d \in Days : mem.upto < d /\ d < target => ~HasFile(d)
  BY <1>1 DEF DInv, NextInLine, Faithful, TypeOK, States, Days, Nobody
<1>3. \A d \in Days : HasFile(d) /\ d <= target => notes[d] = NotedFrom(d)
  <2> SUFFICES ASSUME NEW d \in Days, HasFile(d), d <= target PROVE notes[d] = NotedFrom(d)
    OBVIOUS
  <2>1. d <= mem.upto \/ d = target
    BY <1>2
  <2>2. CASE d <= mem.upto
    BY <2>2 DEF DInv, PassedDaysAreNoted
  <2> QED BY <1>2, <2>1, <2>2
<1>0. \A d \in Days : NotedFrom(d)' = NotedFrom(d) /\ (HasFile(d)' <=> HasFile(d))
  BY <1>1 DEF NotedFrom, HasFile
<1>4. PassedDaysAreNoted'
  BY <1>0, <1>1, <1>3 DEF PassedDaysAreNoted
<1>5. KeptOnce' /\ KeptBelow'
  <2>1. \A d \in Days : kept[d] \in Nat /\ kept'[d] = IF d = target THEN kept[d] + 1 ELSE kept[d]
    BY <1>1, <1>2 DEF TypeOK
  <2>2. kept[target] = 0
    BY <1>2, <2>1 DEF DInv, KeptBelow
  <2>3. \A d \in Days : d <= mem.upto => d <= target
    BY <1>2
  <2>4. KeptBelow'
    BY <1>1, <1>2, <2>1, <2>3 DEF DInv, KeptBelow
  <2>5. KeptOnce'
    BY <1>0, <1>1, <1>2, <2>1, <2>2 DEF DInv, KeptOnce
  <2> QED BY <2>4, <2>5
<1>6. Sealed'
  BY <1>0, <1>1, <1>2 DEF DInv, Sealed
<1>7. NextInLine' /\ Faithful'
  BY <1>1 DEF NextInLine, Faithful
<1> QED BY <1>4, <1>5, <1>6, <1>7 DEF DInv

LEMMA BeginsStep ==
  ASSUME TypeOK, DInv, Begins
  PROVE  DInv'
<1>1. /\ night = "sleep" /\ UNCHANGED <<today, lines, acted, notes, kept>>
      /\ mem'.upto = mem.upto /\ disk'.upto = mem.upto
  BY DEF Begins, calendar, MaybeRestored, TypeOK, States, DInv, Sealed
<1>2. CASE UNCHANGED <<night, target, heard>>
  BY <1>1, <1>2, AsideStep
<1>3. CASE PickTarget # Nobody /\ night' = "reading" /\ target' = PickTarget
           /\ heard' = GivenOf(lines[PickTarget])
  <2>0. \A d \in Days : NotedFrom(d)' = NotedFrom(d) /\ (HasFile(d)' <=> HasFile(d))
    BY <1>1 DEF NotedFrom, HasFile
  <2>1. /\ PickTarget \in Days /\ PickTarget < today /\ PickTarget > mem.upto
        /\ \A d \in Candidates : PickTarget <= d
    BY <1>3, PickIsNext DEF Candidates
  <2>2. ASSUME NEW d \in Days, mem.upto < d, d < PickTarget PROVE ~HasFile(d)
    <3>1. /\ d \in Nat /\ PickTarget \in Nat
          /\ mem.upto \in Nat /\ today \in Nat
      <4>1. d \in Nat /\ PickTarget \in Nat
        BY <2>1 DEF Days
      <4>2. mem.upto \in Nat /\ today \in Nat
        BY DEF Days, TypeOK, States
      <4> QED BY <4>1, <4>2
    <3>2. d \notin Candidates /\ d < today /\ d > mem.upto
      BY <2>1, <2>2, <3>1
    <3> QED BY <3>2 DEF Candidates
  <2>3. mem.upto < PickTarget
    BY <2>1 DEF Days, TypeOK, States
  <2>4. NextInLine' /\ Faithful'
    BY <1>1, <1>3, <2>0, <2>1, <2>2, <2>3 DEF NextInLine, Faithful
  <2>5. PassedDaysAreNoted' /\ KeptOnce' /\ KeptBelow' /\ Sealed'
    BY <1>1, <2>0 DEF DInv, PassedDaysAreNoted, KeptOnce, KeptBelow, Sealed
  <2> QED BY <2>4, <2>5 DEF DInv
<1> QED BY <1>2, <1>3 DEF Begins

LEMMA ReportsStep ==
  ASSUME TypeOK, DInv, Reports
  PROVE  DInv'
<1>1. /\ night = "reading" /\ night' = "indexing"
      /\ UNCHANGED <<today, lines, acted, kept, mem, disk, target>>
      /\ notes' = [notes EXCEPT ![target] = {heard}] /\ heard = GivenOf(lines[target])
  BY DEF Reports, calendar, state, DInv, Faithful
<1>2. /\ target \in Days /\ target < today /\ mem.upto < target /\ mem.upto \in Nat
      /\ \A d \in Days : d \in Nat
  BY <1>1 DEF DInv, NextInLine, TypeOK, States, Days, Nobody
<1>3. \A d \in Days : /\ notes'[d] = IF d = target THEN NotedFrom(d) ELSE notes[d]
                      /\ NotedFrom(d)' = NotedFrom(d) /\ (HasFile(d)' <=> HasFile(d))
  BY <1>1, <1>2 DEF TypeOK, NotedFrom, HasFile
<1>4. PassedDaysAreNoted' /\ KeptOnce' /\ KeptBelow' /\ Sealed'
  BY <1>1, <1>2, <1>3 DEF DInv, PassedDaysAreNoted, KeptOnce, KeptBelow, Sealed
<1>5. NextInLine' /\ Faithful'
  BY <1>1, <1>2, <1>3 DEF DInv, NextInLine, Faithful
<1> QED BY <1>4, <1>5 DEF DInv

LEMMA MidnightStep ==
  ASSUME TypeOK, DInv, Midnight
  PROVE  DInv'
<1>1. /\ today' = today + 1 /\ UNCHANGED <<lines, acted, notes, kept, mem, disk, night, target, heard>>
      /\ today \in Nat /\ mem.upto \in Nat /\ \A d \in Days : d \in Nat
      /\ target \in Nat
  BY DEF Midnight, state, trigger, TypeOK, Days, States
<1>0. \A d : NotedFrom(d)' = NotedFrom(d) /\ (HasFile(d)' <=> HasFile(d))
  BY <1>1 DEF NotedFrom, HasFile
<1>2. Sealed' /\ NextInLine'
  <2>1. \A d \in Nat : (d < today => d < today + 1) /\ (d > today + 1 => d > today)
    BY <1>1
  <2> QED BY <1>0, <1>1, <2>1 DEF DInv, Sealed, NextInLine
<1>3. PassedDaysAreNoted' /\ KeptOnce' /\ KeptBelow' /\ Faithful'
  BY <1>0, <1>1 DEF DInv, PassedDaysAreNoted, KeptOnce, KeptBelow, Faithful
<1> QED BY <1>2, <1>3 DEF DInv

LEMMA DaysStep ==
  ASSUME TypeOK, DInv, [Next]_vars
  PROVE  DInv'
<1>1. mem \in States /\ disk \in States /\ disk.upto = mem.upto
  BY DEF TypeOK, DInv, Sealed
<1> USE DEF calendar, state, mind, trigger, store
<1>2. CASE UNCHANGED vars
  BY <1>1, <1>2, AsideStep DEF vars
<1>3. CASE Midnight \/ Reports \/ CycleOn \/ Begins
  BY <1>3, MidnightStep, ReportsStep, CycleOnStep, BeginsStep
<1>4. CASE Quiet \/ OwnerSpeaks \/ PinSelf \/ KeeperEdits
  BY <1>1, <1>4, AsideStep DEF Quiet, OwnerSpeaks, PinSelf, KeeperEdits
<1>5. CASE Cool \/ Poll
  <2>1. mem'.upto = mem.upto /\ disk'.upto = mem.upto
    BY <1>1, <1>5 DEF Cool, Poll, MaybeRestored, States
  <2> QED BY <1>5, <2>1, AsideStep DEF Cool, Poll
<1>6. ASSUME NEW kind \in Kinds, StartTurn(kind) PROVE DInv'
  <2>1. mem'.upto = mem.upto /\ disk'.upto = mem.upto
    BY <1>1, <1>6 DEF StartTurn, States
  <2>2. \A d \in Days : d # today => lines'[d] = lines[d] /\ (d \in acted' <=> d \in acted)
    BY <1>6 DEF StartTurn, Transcribed, TypeOK
  <2>3. UNCHANGED <<today, notes, kept, night, target, heard>>
    BY <1>6 DEF StartTurn
  <2> QED BY <2>1, <2>2, <2>3, TodayStep
<1>7. CASE EndTurn
  <2>1. mem'.upto = mem.upto /\ disk'.upto = mem.upto
    BY <1>1, <1>7 DEF EndTurn
  <2>2. \A d \in Days : d # today => lines'[d] = lines[d] /\ (d \in acted' <=> d \in acted)
    BY <1>7 DEF EndTurn, Transcribed, TypeOK
  <2>3. UNCHANGED <<today, notes, kept, night, target, heard>>
    BY <1>7 DEF EndTurn
  <2> QED BY <2>1, <2>2, <2>3, TodayStep
<1>8. CASE Indexed \/ Fails
  BY <1>1, <1>8, AsideStep DEF Indexed, Fails
<1>9. CASE CycleEnds \/ KeeperEnds \/ Unwinds
  BY <1>1, <1>9, AsideStep DEF CycleEnds, KeeperEnds, Unwinds, Rest
<1>10. CASE Crash
  BY <1>1, <1>10, AsideStep DEF Crash, Rest
<1>11. CASE Boot
  BY <1>1, <1>11, AsideStep DEF Boot
<1> QED BY <1>2, <1>3, <1>4, <1>5, <1>6, <1>7, <1>8, <1>9, <1>10, <1>11 DEF Next

LEMMA InitIInv == Init => IInv /\ SelfShown
<1> SUFFICES ASSUME Init PROVE IInv /\ SelfShown
  OBVIOUS
<1>1. << >> \in Transcripts /\ <<"owner">> \in Transcripts
  BY DEF Transcripts
<1>2. profile \in [Sections -> Seq(Nat)]
  <2>1. <<1>> \in Seq(Nat) /\ <<2>> \in Seq(Nat)
    OBVIOUS
  <2> QED BY <2>1 DEF Init
<1>3. lines \in [Days -> Transcripts] /\ notes \in [Days -> SUBSET Transcripts] /\ acted \subseteq Days
  BY <1>1 DEF Init
<1>4. mem \in States /\ disk = mem
  BY DEF Init, States
<1>5. TypeOK
  <2>1. /\ today \in Days /\ inbox \in Nat /\ texts \in Nat /\ mangled \in Nat /\ kept \in [Days -> Nat]
        /\ target \in 0..LastDay /\ (target = Nobody <=> night = "sleep")
    BY DEF Init, Days, Nobody
  <2>2. up \in BOOLEAN /\ idle \in BOOLEAN /\ axed \in BOOLEAN /\ ~axed /\ mistaken \in BOOLEAN
    BY Zenon DEF Init
  <2>3. /\ page \subseteq Nat /\ heard \in Transcripts
        /\ turn \in Kinds \cup {"none"} /\ night \in Working \cup {"sleep", "ended", "failed"}
    BY <1>1 DEF Init
  <2> QED BY <1>2, <1>3, <1>4, <2>1, <2>2, <2>3 DEF TypeOK
<1>6. DInv
  <2>1. \A d \in Days : HasFile(d) => d = 1
    BY DEF Init, HasFile
  <2> QED BY <2>1 DEF Init, DInv, PassedDaysAreNoted, KeptOnce, Sealed, NextInLine, Faithful,
                      KeptBelow, Days
<1>7. Served /\ SelfShown
  BY DEF Init, Served, SelfShown
<1> QED BY <1>5, <1>6, <1>7 DEF IInv

-----------------------------------------------------------------------------
(* Her own section                                                          *)

\* A step that edits nothing, and shows a turn that begins all there is.
LEMMA SelfAside ==
  ASSUME SelfShown, UNCHANGED store,
         turn' = "none" \/ page' = AllOf(profile["self"]) \/ UNCHANGED mind
  PROVE  SelfShown'
BY DEF SelfShown, store, mind

\* An edit by a turn whose it is: what it changes in her own section it has seen.
LEMMA SelfStep ==
  ASSUME TypeOK, SelfShown, [Next]_vars
  PROVE  SelfShown' /\ (profile'["self"] # profile["self"] => turn = "reflection" \/ mangled' > mangled)
<1> USE DEF calendar, state, mind, trigger
<1>1. "self" \in Sections /\ "owner" \in Sections /\ "self" # "owner" /\ mangled \in Nat
  BY DEF Sections, TypeOK
<1>2. ASSUME UNCHANGED store, turn' = "none" \/ page' = AllOf(profile["self"]) \/ UNCHANGED mind
      PROVE  SelfShown' /\ profile' = profile
  BY <1>2, SelfAside DEF store
<1>3. CASE PinSelf
  <2>1. turn # "none" /\ turn' = turn /\ page' = page \union (AllOf(profile'["self"]) \ AllOf(profile["self"]))
    BY <1>3 DEF PinSelf, Learn
  <2>2. PICK s \in Sections :
          /\ s \in Revisable
          /\ AddEntry(s) \/ \E i \in DOMAIN profile[s] : ReplaceEntry(s, i) \/ RemoveEntry(s, i)
          /\ mistaken' = mistaken \/ \E i \in DOMAIN profile[s] : Hits(s, i)
    <3>1. CASE \E s \in Sections : PinAdd(s)
      BY <3>1 DEF PinAdd, MayPin
    <3>2. CASE \E named, s \in Sections : \E i \in DOMAIN profile[s] : PinEdit(named, s, i)
      BY <3>2 DEF PinEdit, MayPin
    <3> QED BY <1>3, <3>1, <3>2 DEF PinSelf
  <2>3. /\ mangled' = mangled \/ mangled' = mangled + 1
        /\ mangled' = mangled => \A p \in Sections : p # s => profile'[p] = profile[p]
    BY <2>2, EditsKeepShape
  <2>4. s = "self" => turn = "reflection"
    BY <1>1, <2>2 DEF Revisable
  <2>5. SelfShown'
    <3> SUFFICES ASSUME mangled' = 0
                 PROVE  AllOf(profile'["self"]) \subseteq page' /\ ~mistaken'
      BY <2>1 DEF SelfShown
    <3>1. mangled = 0 /\ AllOf(profile["self"]) \subseteq page /\ ~mistaken
      BY <1>1, <2>1, <2>3 DEF SelfShown
    <3>2. \A i \in DOMAIN profile["self"] : profile["self"][i] \in page
      BY <3>1 DEF AllOf
    <3>3. ~mistaken'
      BY <2>2, <3>1, <3>2 DEF Hits
    <3> QED BY <2>1, <3>1, <3>3
  <2>6. mangled' > mangled \/ mangled' = mangled
    BY <1>1, <2>3
  <2> QED BY <1>1, <2>3, <2>4, <2>5, <2>6
<1>4. CASE KeeperEdits
  <2>1. turn' = turn /\ page' = page /\ mistaken' = mistaken
    BY <1>4 DEF KeeperEdits
  <2>2. /\ mangled' = mangled \/ mangled' = mangled + 1
        /\ mangled' = mangled => profile'["self"] = profile["self"]
    BY <1>1, <1>4, EditsKeepShape DEF KeeperEdits
  <2>3. mangled' > mangled \/ mangled' = mangled
    BY <1>1, <2>2
  <2>4. mangled' = 0 => mangled = 0 /\ mangled' = mangled
    BY <1>1, <2>2
  <2> QED BY <2>1, <2>2, <2>3, <2>4 DEF SelfShown
<1>5. CASE Midnight \/ Quiet \/ Cool \/ OwnerSpeaks \/ Poll \/ Begins \/ Reports \/ Indexed \/ Fails
  BY <1>2, <1>5 DEF Midnight, Quiet, Cool, OwnerSpeaks, Poll, Begins, Reports, Indexed, Fails
<1>6. CASE CycleOn \/ CycleEnds \/ KeeperEnds \/ Unwinds \/ Boot \/ UNCHANGED vars
  BY <1>2, <1>6 DEF CycleOn, CycleEnds, KeeperEnds, Unwinds, Boot, vars
<1>7. CASE EndTurn \/ Crash \/ \E kind \in Kinds : StartTurn(kind)
  BY <1>2, <1>7 DEF EndTurn, Crash, StartTurn
<1> QED BY <1>3, <1>4, <1>5, <1>6, <1>7 DEF Next

-----------------------------------------------------------------------------
LEMMA StepIInv == IInv /\ [Next]_vars => IInv'
BY TypeStep, DaysStep DEF IInv, DInv

(* The transcripts below the watermark are closed and noted, saved and      *)
(* unsaved watermark agree, and the day at work is the first that is over   *)
(* and has not been passed.                                                 *)
THEOREM Ledger == Spec => []IInv
<1>1. Init => IInv
  BY InitIInv
<1> QED BY <1>1, StepIInv, PTL DEF Spec

(* A day the watermark has passed has notes, of all the agent is given of   *)
(* it (the end of its conversation), with no line that came later, and the  *)
(* profile keeper has gone over it at most once, for any number of days,    *)
(* lines, failed or cancelled attempts and crashes.                         *)
THEOREM DoneOnce == Spec => []DaysAreDoneOnce
<1>1. IInv => DaysAreDoneOnce
  BY DEF IInv, DInv, DaysAreDoneOnce
<1> QED BY <1>1, Ledger, PTL

(* Her own section of the profile changes in reflection turns only, but for *)
(* a text of several lines, and until there is one every edit of it hits an *)
(* entry the turn was shown, whatever its target resolves to and whatever   *)
(* the keeper does to the owner's sections meanwhile.                       *)
THEOREM HerOwn == Spec => SelfIsForReflection
<1>1. Init => SelfShown
  BY InitIInv
<1>2. IInv /\ SelfShown /\ [Next]_vars => SelfShown'
  BY SelfStep DEF IInv
<1>3. Spec => []SelfShown
  BY <1>1, <1>2, Ledger, PTL DEF Spec
<1>4. SelfShown => (mangled = 0 => ~mistaken)
  BY DEF SelfShown
<1>5. IInv /\ SelfShown /\ [Next]_vars
        => [profile'["self"] # profile["self"] => turn = "reflection" \/ mangled' > mangled]_vars
  BY SelfStep DEF IInv
<1>6. Spec => [][profile'["self"] # profile["self"] => turn = "reflection" \/ mangled' > mangled]_vars
  BY <1>3, <1>5, Ledger, PTL DEF Spec
<1>7. Spec => [](mangled = 0 => ~mistaken)
  BY <1>3, <1>4, PTL
<1> QED BY <1>6, <1>7, PTL DEF SelfIsForReflection

-----------------------------------------------------------------------------
(* Moments, for any windows, throttles, levels of energy, entries and polls,  *)
(* and any number of faults and restarts: what wakes her by the clock.         *)

HIDE NightsAssumption

\* No rule is armed and told of in this episode.
Vitals ==
    /\ host \in Host /\ sample \in Host \union {None} /\ age \in 0..3
    /\ armed \subseteq Rules /\ told \subseteq Rules
    /\ stuck \in [window : Windows \union {None}, since : 0..StuckFor \union {None}]
    /\ quiet \in 0..Throttle
    /\ OncePerEpisode /\ told \intersect armed = {}

\* What waits for a turn on the reserve counts with what has begun on it: the
\* reserve was whole when the last of it was put.
Waits(S) == IF "agenda" \in S THEN 1 ELSE 0
Reserve ==
    /\ energy \in 0..Full /\ goals \in BOOLEAN /\ stored \in [energy : 0..Full, goals : BOOLEAN]
    /\ passed \in 0..Threshold /\ rested \in 0..AgendaGap
    /\ alive \subseteq {"reflection", "agenda"}
    /\ incoming \subseteq Wakes /\ held \subseteq Wakes /\ serving \subseteq Wakes
    /\ low \in Nat /\ low + Waits(incoming) + Waits(held) <= 2
    /\ energy > Floor => low = 0

\* An entry counts as fired when its time has come, and if it is still kept its
\* put worked.  One that has not come had its time after the last good poll.
OnTime ==
    /\ now \in Times /\ file \subseteq Times /\ fired \subseteq Times /\ scheduled \subseteq file
    /\ gap \in 0..(Window + 1) /\ count \in [Times -> Nat] /\ steady \in BOOLEAN
    /\ \A t \in fired : t <= now
    /\ \A t \in Times : count[t] <= 1 /\ (count[t] > 0 => t \in fired)
    /\ \A t \in scheduled \intersect fired : count[t] = 1
    /\ steady => /\ gap <= Window
                 /\ \A t \in scheduled : count[t] = 1 \/ now <= t + gap

MInv == Vitals /\ Reserve /\ OnTime /\ due \subseteq {"sample", "tick", "poll"}

USE MomentsAssumption

LEMMA UptoIn ==
  ASSUME NEW cap \in Nat, NEW n \in 0..cap
  PROVE  Upto(n, cap) \in 0..cap
BY DEF Upto

LEMMA InitHolds == ASSUME MomentsInit PROVE MInv
<1>1. Vitals
  BY DEF MomentsInit, Vitals, Host, OncePerEpisode
<1>2. Reserve
  <2>1. /\ Waits({}) = 0 /\ Full \in 0..Full /\ 0 \in 0..Threshold /\ 0 \in 0..AgendaGap
    BY DEF Waits
  <2>2. /\ energy = Full /\ goals = FALSE /\ stored = [energy |-> Full, goals |-> FALSE]
        /\ passed = 0 /\ rested = 0 /\ alive = {"reflection", "agenda"}
        /\ incoming = {} /\ held = {} /\ serving = {} /\ low = 0
    BY DEF MomentsInit
  <2>3. stored \in [energy : 0..Full, goals : BOOLEAN]
    BY <2>1, <2>2
  <2>4. low + Waits(incoming) + Waits(held) <= 2
    BY <2>1, <2>2
  <2> QED BY <2>1, <2>2, <2>3, <2>4 DEF Reserve
<1>3. OnTime
  BY DEF MomentsInit, OnTime, Times
<1> QED BY <1>1, <1>2, <1>3 DEF MomentsInit, MInv

LEMMA VitalsSame == ASSUME Vitals, UNCHANGED vitals PROVE Vitals'
BY DEF Vitals, vitals, OncePerEpisode
LEMMA ReserveSame == ASSUME Reserve, UNCHANGED rhythm PROVE Reserve'
BY DEF Reserve, rhythm, Waits
LEMMA OnTimeSame == ASSUME OnTime, UNCHANGED schedule PROVE OnTime'
BY DEF OnTime, schedule

\* The window watched, whatever the sample.
LEMMA WatchedIn ==
  ASSUME Vitals, NEW s \in Host
  PROVE  /\ Watched(s) \in [window : Windows \union {None}, since : 0..StuckFor \union {None}]
         /\ BadIn(s) \subseteq Rules
<1>1. s.window = None => Watched(s) = [window |-> None, since |-> None]
  BY DEF Watched
<1>2. s.window # None /\ s.window # stuck.window
        => Watched(s) = [window |-> s.window, since |-> IF s.here THEN 0 ELSE None]
  BY DEF Watched
<1>3. s.window = stuck.window /\ s.window # None
        => Watched(s) \in {[stuck EXCEPT !.since = None], [stuck EXCEPT !.since = 0], stuck}
  BY DEF Watched, Vitals
<1>4. BadIn(s) \subseteq Rules
  BY DEF BadIn, Host, Rules
<1>5. s.window \in Windows \union {None} /\ 0 \in 0..StuckFor
  BY DEF Host
<1> QED BY <1>1, <1>2, <1>3, <1>4, <1>5 DEF Vitals

\* What is told of is bad and armed.
LEMMA AlertIsArmed ==
  ASSUME NEW s \in Host, BadIn(s) \subseteq Rules
  PROVE  Alert(s) = None \/ Alert(s) \in BadIn(s) \intersect armed
BY DEF Alert, Rules

LEMMA VitalsStep ==
  ASSUME Vitals,
         HostChanges \/ Minute \/ SampleRaises
           \/ (\E failed \in SUBSET Rules : Sample(failed)) \/ \E ok \in BOOLEAN : PulseTick(ok)
  PROVE  Vitals'
<1> USE DEF OncePerEpisode
<1>1. CASE HostChanges
  <2>1. host' \in Host
    <3>1. ASSUME NEW r \in {"battery", "gpu"},
                 host' = [host EXCEPT !.bad = IF r \in @ THEN @ \ {r} ELSE @ \union {r}]
          PROVE  host' \in Host
      BY <3>1 DEF Vitals, Host
    <3>2. ASSUME NEW w \in Windows \union {None}, NEW here \in BOOLEAN,
                 host' = [host EXCEPT !.window = w, !.here = here]
          PROVE  host' \in Host
      BY <3>2 DEF Vitals, Host
    <3> QED BY <1>1, <3>1, <3>2 DEF HostChanges
  <2> QED BY <1>1, <2>1 DEF HostChanges, Vitals
<1>2. CASE Minute
  <2>1. age' \in 0..3 /\ quiet' \in 0..Throttle
    BY <1>2, UptoIn DEF Minute, Vitals
  <2>2. stuck.since # None => Upto(stuck.since, StuckFor) \in 0..StuckFor
    BY UptoIn DEF Vitals
  <2>3. stuck' \in [window : Windows \union {None}, since : 0..StuckFor \union {None}]
    BY <1>2, <2>2 DEF Minute, Vitals
  <2> QED BY <1>2, <2>1, <2>3 DEF Minute, Vitals
<1>3. CASE SampleRaises
  BY <1>3, VitalsSame DEF SampleRaises, vitals
<1>4. ASSUME NEW failed \in SUBSET Rules, Sample(failed) PROVE Vitals'
  <2>1. Reading(failed) \in Host
    BY DEF Reading, Vitals, Host
  <2> QED BY <1>4, <2>1 DEF Sample, Vitals
<1>5. ASSUME NEW ok \in BOOLEAN, PulseTick(ok) PROVE Vitals'
  <2>1. CASE LatestSample = None
    BY <1>5, <2>1 DEF PulseTick, Vitals
  <2>2. CASE LatestSample # None
    <3> DEFINE s == LatestSample
               alert == Alert(s)
    <3>1. s \in Host
      BY <2>2 DEF LatestSample, Vitals
    <3>2. /\ Watched(s) \in [window : Windows \union {None}, since : 0..StuckFor \union {None}]
          /\ BadIn(s) \subseteq Rules
      BY <3>1, WatchedIn
    <3>3. alert = None \/ alert \in BadIn(s) \intersect armed
      BY <3>1, <3>2, AlertIsArmed
    <3>4. /\ AlertState(s, alert)
          /\ told' = (told \intersect BadIn(s)) \union ({alert} \ {None})
          /\ repeated' = (repeated \/ alert \in told \intersect BadIn(s))
          /\ UNCHANGED <<host, sample, age>>
      BY <1>5, <2>2 DEF PulseTick
    <3>5. armed' \subseteq Rules /\ told' \subseteq Rules /\ told' \intersect armed' = {} /\ ~repeated'
      BY <3>2, <3>3, <3>4 DEF AlertState, Vitals, Rules
    <3>6. stuck' = Watched(s) /\ quiet' \in 0..Throttle
      BY <3>4 DEF AlertState, Vitals
    <3> QED BY <3>2, <3>4, <3>5, <3>6 DEF Vitals
  <2> QED BY <2>1, <2>2
<1> QED BY <1>1, <1>2, <1>3, <1>4, <1>5

LEMMA RestCounts ==
  ASSUME Reserve, Rests
  PROVE  Reserve'
<1>1. Upto(energy, Full) \in 0..Full /\ Upto(rested, AgendaGap) \in 0..AgendaGap
  BY UptoIn DEF Reserve
<1>2. CASE away
  BY <1>1, <1>2 DEF Rests, Reserve, Waits
<1>3. CASE ~away
  BY <1>1, <1>3 DEF Rests, Reserve, Waits
<1> QED BY <1>2, <1>3

LEMMA ReserveStep ==
  ASSUME Reserve,
         \/ \E kind \in Wakes : OwnerWrites(kind)
         \/ \E ok \in BOOLEAN : ReflectionFires(ok) \/ AgendaFires(ok)
         \/ Rests \/ Drains \/ TurnBegins \/ TurnRaises
         \/ \E drain \in 0..MaxDrain, saves \in BOOLEAN : TurnReturns(drain, saves)
  PROVE  Reserve'
<1>0. ASSUME NEW kind, NEW ok \in BOOLEAN, Fires(kind, ok)
      PROVE  /\ incoming' \in {incoming, incoming \union {kind}} /\ alive' \in {alive, alive \ {kind}}
  BY <1>0 DEF Fires
<1>1. ASSUME NEW kind \in Wakes, OwnerWrites(kind) PROVE Reserve'
  BY <1>1 DEF OwnerWrites, Reserve, Waits
<1>2. ASSUME NEW ok \in BOOLEAN, ReflectionFires(ok) PROVE Reserve'
  <2>1. /\ incoming' \subseteq Wakes /\ ("agenda" \in incoming' <=> "agenda" \in incoming)
        /\ alive' \subseteq alive /\ passed' \in 0..Threshold
        /\ UNCHANGED <<energy, goals, stored, rested, held, serving, low>>
    <3>1. /\ Fires("reflection", ok) /\ passed' \in {0, passed}
          /\ UNCHANGED <<energy, goals, stored, rested, held, serving, low>>
      BY <1>2 DEF ReflectionFires
    <3>2. /\ incoming' \in {incoming, incoming \union {"reflection"}}
          /\ alive' \in {alive, alive \ {"reflection"}}
      BY <1>0, <3>1
    <3> QED BY <3>1, <3>2 DEF Reserve, Wakes
  <2> QED BY <2>1 DEF Reserve, Waits
<1>3. ASSUME NEW ok \in BOOLEAN, AgendaFires(ok) PROVE Reserve'
  <2>1. low = 0 /\ low' = 0 /\ held' = held /\ energy' = energy
    BY <1>3 DEF AgendaFires, Reserve
  <2>2. /\ incoming' \subseteq Wakes /\ alive' \subseteq alive /\ rested' \in 0..AgendaGap
        /\ UNCHANGED <<goals, stored, passed, serving>>
    <3>1. Fires("agenda", ok) /\ rested' \in {0, rested} /\ UNCHANGED <<goals, stored, passed, serving>>
      BY <1>3 DEF AgendaFires
    <3>2. incoming' \in {incoming, incoming \union {"agenda"}} /\ alive' \in {alive, alive \ {"agenda"}}
      BY <1>0, <3>1
    <3> QED BY <3>1, <3>2 DEF Reserve, Wakes
  <2>3. Waits(incoming') \in {0, 1} /\ Waits(held') \in {0, 1}
    BY DEF Waits
  <2> QED BY <2>1, <2>2, <2>3 DEF Reserve
<1>4. CASE Drains
  BY <1>4 DEF Drains, Drain, Reserve, Waits
<1>5. CASE TurnBegins
  <2>1. serving' \in SUBSET Wakes /\ held' = held \ serving'
    BY <1>5 DEF TurnBegins, Buckets, Reserve
  <2>2. serving' = {"agenda"} => "agenda" \in held
    BY <1>5 DEF TurnBegins, Buckets
  <2> QED BY <1>5, <2>1, <2>2 DEF TurnBegins, Reserve, Waits
<1>6. CASE TurnRaises
  BY <1>6 DEF TurnRaises, Reserve, Waits
<1>7. ASSUME NEW drain \in 0..MaxDrain, NEW saves \in BOOLEAN, TurnReturns(drain, saves)
      PROVE  Reserve'
  <2>1. energy' \in 0..Full /\ (energy' > Floor => energy > Floor)
    BY <1>7 DEF TurnReturns, Reserve
  <2>2. goals' \in BOOLEAN
    BY <1>7 DEF TurnReturns, GoalsAfter, Reserve
  <2>3. passed' \in 0..Threshold
    BY <1>7, UptoIn DEF TurnReturns, Reserve
  <2>4. stored' \in [energy : 0..Full, goals : BOOLEAN]
    BY <1>7, <2>1, <2>2 DEF TurnReturns, Reserve
  <2> QED BY <1>7, <2>1, <2>2, <2>3, <2>4 DEF TurnReturns, Reserve, Waits
<1> QED BY <1>1, <1>2, <1>3, <1>4, <1>5, <1>6, <1>7, RestCounts

LEMMA PollHolds ==
  ASSUME OnTime, NEW fires \in SUBSET Times, NEW failed \in SUBSET Times,
         SchedulePolls(fires, failed)
  PROVE  OnTime'
<1>1. CASE broken
  BY <1>1, OnTimeSame DEF SchedulePolls, schedule
<1>2. CASE ~broken
  <2>1. /\ fires \union failed \subseteq DueEntries /\ fires \intersect failed = {}
        /\ failed = {} => fires = DueEntries
        /\ fired' = fired \union fires \union failed /\ scheduled' = scheduled \ failed
        /\ count' = [t \in Times |-> IF t \in fires THEN count[t] + 1 ELSE count[t]]
        /\ gap' = IF failed = {} THEN 0 ELSE gap
        /\ UNCHANGED <<now, file, steady>>
    BY <1>2 DEF SchedulePolls
  <2>2. /\ now \in Nat /\ gap \in Nat /\ Times \subseteq Nat
    BY DEF OnTime, Times
  <2>3. \A t \in DueEntries : t <= now /\ t \in file /\ t \notin fired /\ count[t] = 0
    BY DEF DueEntries, OnTime
  <2>4. \A t \in Times : count'[t] = IF t \in fires THEN 1 ELSE count[t]
    BY <2>1, <2>3
  <2>5. /\ count' \in [Times -> Nat] /\ fired' \subseteq Times /\ scheduled' \subseteq file'
        /\ gap' \in 0..(Window + 1)
    BY <2>1 DEF OnTime
  <2>6. /\ \A t \in fired' : t <= now'
        /\ \A t \in Times : count'[t] <= 1 /\ (count'[t] > 0 => t \in fired')
        /\ \A t \in scheduled' \intersect fired' : count'[t] = 1
    BY <2>1, <2>3, <2>4 DEF OnTime
  <2>7. ASSUME steady, NEW t \in scheduled', count'[t] # 1
        PROVE  now <= t + gap'
    <3>1. t \in scheduled /\ t \in file /\ t \in Times /\ t \notin fires /\ count[t] # 1
      BY <2>1, <2>4, <2>7 DEF OnTime
    <3>2. now <= t + gap /\ gap <= Window
      BY <2>7, <3>1 DEF OnTime
    <3>3. CASE failed = {}
      <4>1. t \notin DueEntries /\ t \notin fired
        BY <2>1, <3>1, <3>3 DEF OnTime
      <4>2. t > now
        BY <2>2, <3>1, <3>2, <4>1 DEF DueEntries
      <4> QED BY <2>1, <2>2, <3>1, <3>3, <4>2
    <3> QED BY <2>1, <3>2, <3>3
  <2>8. steady' => gap' <= Window
    BY <2>1, <2>2 DEF OnTime
  <2> QED BY <2>1, <2>5, <2>6, <2>7, <2>8 DEF OnTime
<1> QED BY <1>1, <1>2

LEMMA OnTimeStep ==
  ASSUME OnTime,
         \/ HalfMinute \/ NewDay \/ HandEdit
         \/ \E t \in Times : WriteSchedule({t}, {}) \/ WriteSchedule({}, {t})
  PROVE  OnTime'
<1>1. CASE HalfMinute
  <2>1. /\ now' = now + 1 /\ gap' = Upto(gap, Window + 1) /\ now < DayEnd
        /\ steady' = (steady /\ gap' <= Window)
        /\ UNCHANGED <<file, fired, scheduled, count>>
    BY <1>1 DEF HalfMinute
  <2>0. steady' \in BOOLEAN /\ (steady' => steady /\ gap' <= Window)
    BY <2>1
  <2>2. now' \in Times /\ gap' \in 0..(Window + 1) /\ now \in Nat /\ gap \in Nat /\ Times \subseteq Nat
    BY <2>1, UptoIn DEF OnTime, Times
  <2>3. gap' <= Window => gap' = gap + 1
    BY <2>1, <2>2 DEF Upto
  <2>4. ASSUME steady', NEW t \in scheduled, count[t] # 1
        PROVE  now' <= t + gap'
    <3>1. now <= t + gap /\ t \in Nat
      BY <2>0, <2>1, <2>2, <2>4 DEF OnTime
    <3> QED BY <2>0, <2>1, <2>2, <2>3, <2>4, <3>1
  <2>5. \A t \in fired : t <= now'
    BY <2>1, <2>2 DEF OnTime
  <2> QED BY <2>0, <2>1, <2>2, <2>4, <2>5 DEF OnTime
<1>2. CASE NewDay
  <2>1. gap' \in 0..(Window + 1)
    BY <1>2, UptoIn DEF NewDay, OnTime
  <2>2. steady' \in BOOLEAN /\ (steady' => gap' <= Window)
    BY <1>2 DEF NewDay
  <2>3. /\ now' \in Times /\ file' = {} /\ fired' = {} /\ scheduled' = {}
        /\ count' = [t \in Times |-> 0]
    BY <1>2 DEF NewDay, Times
  <2> QED BY <2>1, <2>2, <2>3 DEF OnTime
<1>3. CASE HandEdit
  BY <1>3 DEF HandEdit, OnTime
<1>4. ASSUME NEW add \in SUBSET Times, NEW remove \in SUBSET Times, WriteSchedule(add, remove)
      PROVE  OnTime'
  <2>1. /\ file' = (file \ remove) \union add
        /\ scheduled' = (scheduled \intersect file') \union {t \in add : t > now}
        /\ UNCHANGED <<now, fired, gap, steady, count>>
    BY <1>4 DEF WriteSchedule
  <2>2. file' \subseteq Times /\ scheduled' \subseteq file' /\ now \in Nat /\ gap \in Nat /\ Times \subseteq Nat
    BY <2>1 DEF OnTime, Times
  <2>3. \A t \in scheduled' : t \in scheduled \/ (t > now /\ t \notin fired /\ t \in Nat)
    BY <2>1, <2>2 DEF OnTime
  <2>4. steady => \A t \in scheduled' : count[t] = 1 \/ now <= t + gap
    BY <2>2, <2>3 DEF OnTime
  <2> QED BY <2>1, <2>2, <2>3, <2>4 DEF OnTime
<1> QED BY <1>1, <1>2, <1>3, <1>4

LEMMA RestartHolds == ASSUME MInv, Restart PROVE MInv'
<1>1. Vitals'
  BY DEF MInv, Restart, Vitals, OncePerEpisode
<1>2. Reserve'
  BY DEF MInv, Restart, Reserve, Waits
<1>3. OnTime'
  BY DEF MInv, Restart, OnTime, Times
<1>4. due' = {}
  BY DEF Restart
<1> QED BY <1>1, <1>2, <1>3, <1>4 DEF MInv

LEMMA NextHolds == ASSUME MInv, [MomentsNext]_momentsVars PROVE MInv'
<1>0. Vitals /\ Reserve /\ OnTime /\ due \subseteq {"sample", "tick", "poll"}
  BY DEF MInv
<1>1. CASE UNCHANGED momentsVars
  BY <1>0, <1>1, VitalsSame, ReserveSame, OnTimeSame DEF momentsVars, MInv
<1>2. CASE HostChanges \/ Minute \/ SampleRaises
             \/ (\E failed \in SUBSET Rules : Sample(failed)) \/ \E ok \in BOOLEAN : PulseTick(ok)
  <2>1. UNCHANGED <<rhythm, schedule>> /\ due' \subseteq {"sample", "tick", "poll"}
    BY <1>0, <1>2 DEF HostChanges, Minute, SampleRaises, Sample, PulseTick
  <2> QED BY <1>0, <1>2, <2>1, VitalsStep, ReserveSame, OnTimeSame DEF MInv
<1>3. CASE \/ \E kind \in Wakes : OwnerWrites(kind)
           \/ \E ok \in BOOLEAN : ReflectionFires(ok) \/ AgendaFires(ok)
           \/ Rests \/ Drains \/ TurnBegins \/ TurnRaises
           \/ \E drain \in 0..MaxDrain, saves \in BOOLEAN : TurnReturns(drain, saves)
  <2>1. UNCHANGED <<vitals, schedule, due>>
    BY <1>3 DEF OwnerWrites, ReflectionFires, AgendaFires, Rests, Drains, TurnBegins,
                TurnRaises, TurnReturns
  <2> QED BY <1>0, <1>3, <2>1, ReserveStep, VitalsSame, OnTimeSame DEF MInv
<1>4. ASSUME \/ HalfMinute \/ NewDay \/ HandEdit
             \/ \E t \in Times : WriteSchedule({t}, {}) \/ WriteSchedule({}, {t})
             \/ \E fires \in SUBSET Times, failed \in SUBSET Times : SchedulePolls(fires, failed)
      PROVE  MInv'
  <2>1. UNCHANGED <<vitals, rhythm>> /\ due' \subseteq {"sample", "tick", "poll"}
    BY <1>0, <1>4 DEF HalfMinute, NewDay, HandEdit, WriteSchedule, SchedulePolls
  <2>2. OnTime'
    BY <1>0, <1>4, OnTimeStep, PollHolds
  <2> QED BY <1>0, <2>1, <2>2, VitalsSame, ReserveSame DEF MInv
<1>5. CASE Restart
  BY <1>5, RestartHolds
<1>6. CASE MomentsNext
  <2>1. /\ \A r \in Rules : {r} \in SUBSET Rules
        /\ \A t \in Times : {t} \in SUBSET Times
    OBVIOUS
  <2>2. \/ HostChanges \/ Minute \/ SampleRaises
           \/ (\E failed \in SUBSET Rules : Sample(failed)) \/ \E ok \in BOOLEAN : PulseTick(ok)
        \/ \/ \E kind \in Wakes : OwnerWrites(kind)
           \/ \E ok \in BOOLEAN : ReflectionFires(ok) \/ AgendaFires(ok)
           \/ Rests \/ Drains \/ TurnBegins \/ TurnRaises
           \/ \E drain \in 0..MaxDrain, saves \in BOOLEAN : TurnReturns(drain, saves)
        \/ \/ HalfMinute \/ NewDay \/ HandEdit
           \/ \E t \in Times : WriteSchedule({t}, {}) \/ WriteSchedule({}, {t})
           \/ \E fires \in SUBSET Times, failed \in SUBSET Times : SchedulePolls(fires, failed)
        \/ Restart
    BY <1>6, <2>1, Zenon DEF MomentsNext
  <2> QED BY <1>2, <1>3, <1>4, <1>5, <2>2
<1> QED BY <1>1, <1>6

\* The three sources of moments keep their parts of the invariant.
THEOREM Earned == MomentsSpec => []MInv
BY InitHolds, NextHolds, PTL DEF MomentsSpec

\* She is told of a bad vital once until it was good again, and at most two
\* agenda turns begin with the reserve of her energy touched.
THEOREM WakesEarned == MomentsSpec => []WakesAreEarned
<1>1. MInv => WakesAreEarned
  BY DEF MInv, Vitals, Reserve, OnTime, WakesAreEarned, MomentsTypeOK, ReserveIsKept, Waits
<1> QED BY <1>1, Earned, PTL

\* An entry comes once, if it was on file before its time and the schedule is
\* read as often as it should be, over edits, midnights, restarts and failed puts.
THEOREM EntriesCome == MomentsSpec => []EntriesFire
<1>1. ASSUME MInv PROVE EntriesFire
  <2>1. Times \subseteq Nat /\ now \in Nat /\ gap \in Nat
    BY <1>1 DEF MInv, OnTime, Times
  <2> QED BY <1>1, <2>1 DEF MInv, OnTime, EntriesFire
<1> QED BY <1>1, Earned, PTL
=============================================================================

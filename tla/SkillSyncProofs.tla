--------------------------- MODULE SkillSyncProofs ---------------------------
(***************************************************************************)
(* Proofs that the list of skills and the screen of SkillSync are right,   *)
(* but for the two races named there, for any set of skills and any number *)
(* of workers.                                                             *)
(***************************************************************************)
EXTENDS SkillSync, TLAPS

(* A list marked with the ids is a list, with the right flags.             *)
LEMMA MarkedTrue ==
  ASSUME NEW skills \in (SUBSET Skills) \ {{}}
  PROVE  Marked(skills) \in Lists /\ TrueOf(Marked(skills))
<1>1. Marked(skills) \in [skills -> BOOLEAN]
  BY DEF Marked
<1>2. Marked(skills) \in Lists
  BY <1>1 DEF Lists
<1>3. TrueOf(Marked(skills))
  BY DEF TrueOf, Marked
<1>. QED
  BY <1>2, <1>3

(* The skills of a list.                                                   *)
LEMMA ListDomain == ASSUME NEW l \in Lists PROVE DOMAIN l \in (SUBSET Skills) \ {{}}
  BY DEF Lists

(* Initially the invariant holds.                                          *)
LEMMA SyncInit == ASSUME Init PROVE SyncInv
<1>1. BuiltIn \in (SUBSET Skills) \ {{}}
  BY SkillAssumption
<1>2. list \in Lists /\ TrueOf(list) /\ ui = list /\ shown = list /\ mapped = list
  BY <1>1, MarkedTrue DEF Init
<1>3. TypeOK
  <2>1. ids \subseteq Skills /\ {list, ui, shown, mapped} \subseteq Lists
    BY <1>1, <1>2 DEF Init
  <2>2. fetches \in 0 .. MaxFetches
    BY SkillAssumption DEF Init
  <2>3. worker \in [Workers -> Lists \cup {Idle}]
    BY DEF Init
  <2>. QED
    BY <2>1, <2>2, <2>3 DEF Init, TypeOK
<1>4. WriteInv /\ FlagsTrue /\ ScreenTrue
  BY <1>2 DEF Init, WriteInv, FlagsTrue, ScreenTrue
<1>. QED
  BY <1>3, <1>4 DEF SyncInv

(* The main thread keeps it.                                               *)
LEMMA MainKeeps == ASSUME SyncInv, Main PROVE SyncInv'
<1>. USE DEF SyncInv, TypeOK, WriteInv, FlagsTrue, ScreenTrue, callVars, workerVars
<1>1. ASSUME NEW s \in Skills, Toggle(s) PROVE SyncInv'
  BY <1>1 DEF Toggle
<1>2. CASE MapList
  <2>1. mapped' \in Lists /\ TrueOf(mapped)'
    <3>1. DOMAIN list \in (SUBSET Skills) \ {{}}
      BY ListDomain
    <3>2. Marked(DOMAIN list) \in Lists /\ TrueOf(Marked(DOMAIN list))
      BY <3>1, MarkedTrue
    <3>. QED
      BY <1>2, <3>2 DEF MapList, TrueOf
  <2>2. TypeOK'
    BY <1>2, <2>1 DEF MapList
  <2>3. WriteInv' /\ FlagsTrue' /\ ScreenTrue'
    BY <1>2, <2>1 DEF MapList, TrueOf
  <2>. QED
    BY <2>2, <2>3
<1>3. CASE WriteList
  <2>1. TypeOK'
    BY <1>3 DEF WriteList
  <2>2. WriteInv' /\ FlagsTrue' /\ ScreenTrue'
    BY <1>3 DEF WriteList, TrueOf
  <2>. QED
    BY <2>1, <2>2
<1>4. CASE ShowList
  <2>1. TypeOK'
    BY <1>4 DEF ShowList
  <2>2. WriteInv' /\ FlagsTrue' /\ ScreenTrue'
    BY <1>4 DEF ShowList, TrueOf
  <2>. QED
    BY <2>1, <2>2
<1>5. CASE RefreshSkills
  <2>1. TypeOK'
    BY <1>5, SkillAssumption DEF RefreshSkills
  <2>2. WriteInv' /\ FlagsTrue' /\ ScreenTrue'
    BY <1>5 DEF RefreshSkills, TrueOf
  <2>. QED
    BY <2>1, <2>2
<1>6. CASE Fetched
  <2>1. PICK skills \in (SUBSET Skills) \ {{}} : list' = Marked(skills)
    BY <1>6 DEF Fetched
  <2>2. list' \in Lists /\ TrueOf(list)'
    BY <1>6, <2>1, MarkedTrue DEF Fetched, TrueOf
  <2>3. TypeOK'
    <3>1. fetches' \in 0 .. MaxFetches
      BY <1>6, SkillAssumption DEF Fetched
    <3>2. {list, ui, shown, mapped}' \subseteq Lists
      BY <1>6, <2>2 DEF Fetched
    <3>. QED
      BY <1>6, <3>1, <3>2 DEF Fetched
  <2>4. WriteInv' /\ FlagsTrue' /\ ScreenTrue'
    BY <1>6, <2>2 DEF Fetched, TrueOf
  <2>. QED
    BY <2>3, <2>4
<1>7. CASE Collect
  <2>1. TypeOK'
    BY <1>7 DEF Collect
  <2>2. WriteInv' /\ FlagsTrue' /\ ScreenTrue'
    BY <1>7 DEF Collect, TrueOf
  <2>. QED
    BY <2>1, <2>2
<1>. QED
  BY <1>1, <1>2, <1>3, <1>4, <1>5, <1>6, <1>7 DEF Main

(* The workers keep it.                                                    *)
LEMMA WorkersKeep ==
  ASSUME SyncInv, NEW w \in Workers, SyncRead(w) \/ SyncWrite(w)
  PROVE  SyncInv'
<1>. USE DEF SyncInv, TypeOK, WriteInv, FlagsTrue, ScreenTrue, callVars
<1>1. CASE SyncRead(w)
  <2>1. PICK skills \in (SUBSET Skills) \ {{}} : worker' = [worker EXCEPT ![w] = Marked(skills)]
    BY <1>1 DEF SyncRead
  <2>2. Marked(skills) \in Lists /\ TrueOf(Marked(skills))
    BY MarkedTrue
  <2>3. TypeOK'
    BY <1>1, <2>1, <2>2 DEF SyncRead
  <2>4. WriteInv'
    <3>1. \A v \in Workers : worker'[v] # Idle /\ v \notin missed => TrueOf(worker'[v])
      BY <2>1, <2>2
    <3>. QED
      BY <1>1, <3>1 DEF SyncRead, TrueOf
  <2>5. FlagsTrue' /\ ScreenTrue'
    BY <1>1 DEF SyncRead, TrueOf
  <2>. QED
    BY <2>3, <2>4, <2>5
<1>2. CASE SyncWrite(w)
  <2>1. list' \in Lists
    BY <1>2 DEF SyncWrite
  <2>2. TypeOK'
    BY <1>2, <2>1 DEF SyncWrite
  <2>3. WriteInv'
    BY <1>2 DEF SyncWrite, TrueOf
  <2>4. FlagsTrue'
    BY <1>2 DEF SyncWrite, TrueOf
  <2>5. ScreenTrue'
    BY <1>2 DEF SyncWrite
  <2>. QED
    BY <2>2, <2>3, <2>4, <2>5
<1>. QED
  BY <1>1, <1>2

(* The invariant holds in every behaviour.                                 *)
THEOREM SyncInvariant == Spec => []SyncInv
<1>1. SyncInv /\ [Next]_vars => SyncInv'
  <2>. SUFFICES ASSUME SyncInv, [Next]_vars PROVE SyncInv'
    OBVIOUS
  <2>1. CASE UNCHANGED vars
    BY <2>1 DEF vars, callVars, workerVars, SyncInv, TypeOK, WriteInv, FlagsTrue, ScreenTrue,
                TrueOf
  <2>. QED
    BY <2>1, MainKeeps, WorkersKeep DEF Next
<1>. QED
  BY <1>1, SyncInit, PTL DEF Spec

(* Every variable keeps its type; no list is empty.                        *)
THEOREM TypeCorrect == Spec => []TypeOK
  BY SyncInvariant, PTL DEF SyncInv

(* The flags say what is installed, but while a toggle is under way and    *)
(* after a worker wrote flags it read before a toggle.                     *)
THEOREM FlagsAreTrue == Spec => []FlagsTrue
  BY SyncInvariant, PTL DEF SyncInv

(* The screen shows the registry's list or is about to, but after a worker *)
(* brought back the list the collector saw last.                           *)
THEOREM ScreenIsTrue == Spec => []ScreenTrue
  BY SyncInvariant, PTL DEF SyncInv
=============================================================================

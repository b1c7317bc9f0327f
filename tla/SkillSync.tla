------------------------------ MODULE SkillSync ------------------------------
(***************************************************************************)
(* The list of skills: SkillRegistry.kt, which takes no lock, its two      *)
(* users, SkillStoreViewModel.kt on the main thread and the SyncWorkers on *)
(* the IO dispatcher (the one of the startup and the periodic one are two  *)
(* unique works), and the screen that shows it.                            *)
(*                                                                         *)
(* A list is a function from the skills in it to whether they are          *)
(* installed.                                                              *)
(***************************************************************************)
EXTENDS Integers, FiniteSets

CONSTANTS
  Skills,
  BuiltIn,     \* BUILTIN_SKILLS
  Workers,     \* runs of SyncWorker at once
  MaxFetches   \* refreshSkills coroutines at once: a bound

ASSUME SkillAssumption ==
  BuiltIn \subseteq Skills /\ BuiltIn # {} /\ MaxFetches \in Nat

VARIABLES
  ids,        \* installedSkillIds
  list,       \* _communitySkills
  ui,         \* the list in _uiState
  shown,      \* what the collector has seen last
  loading,    \* isLoading
  fetches,    \* refreshes that wait for the service
  main,       \* where the main thread is
  mapped,     \* the list it is about to write
  worker,     \* the list each worker is about to write, or Idle
  missed,     \* history: workers that read the ids before they changed
  raced,      \* history: such a worker wrote the list
  returned    \* history: a worker brought back what the collector saw last

callVars == <<main, mapped, fetches, loading>>
workerVars == <<worker, missed, raced, returned>>
vars == <<ids, list, ui, shown, callVars, workerVars>>

Lists == UNION {[skills -> BOOLEAN] : skills \in (SUBSET Skills) \ {{}}}
Idle == <<>>

Marked(skills) == [s \in skills |-> s \in ids]

Init ==
  /\ ids \in SUBSET BuiltIn
  /\ list = Marked(BuiltIn) /\ ui = list /\ shown = list
  /\ loading = FALSE /\ fetches = 0
  /\ main = "free" /\ mapped = list
  /\ worker = [w \in Workers |-> Idle]
  /\ missed = {} /\ raced = FALSE /\ returned = FALSE
-----------------------------------------------------------------------------
(* The main thread. *)

(* toggleInstalled: the ids first, then the list is read, and written.     *)
Toggle(s) ==
  /\ main = "free" /\ s \in DOMAIN ui
  /\ ids' = IF s \in ids THEN ids \ {s} ELSE ids \cup {s}
  /\ main' = "map"
  /\ missed' = {w \in Workers : worker[w] # Idle}
  /\ UNCHANGED <<list, ui, shown, mapped, fetches, loading, worker, raced, returned>>

MapList ==
  /\ main = "map"
  /\ mapped' = Marked(DOMAIN list)
  /\ main' = "write"
  /\ UNCHANGED <<ids, list, ui, shown, fetches, loading, workerVars>>

(* Mutant of WriteList: the list is left to the next update.               *)
WriteNothing ==
  /\ main = "write"
  /\ main' = "show" /\ raced' = FALSE /\ returned' = FALSE
  /\ UNCHANGED <<ids, list, ui, shown, mapped, fetches, loading, worker, missed>>

WriteList ==
  /\ main = "write"
  /\ list' = mapped
  /\ main' = "show" /\ raced' = FALSE /\ returned' = FALSE
  /\ UNCHANGED <<ids, ui, shown, mapped, fetches, loading, worker, missed>>

(* Mutant of ShowList: the flag of a refresh is not lowered.               *)
ShowOnly ==
  /\ main \in {"show", "finally"}
  /\ ui' = list
  /\ main' = "free"
  /\ UNCHANGED <<ids, list, shown, mapped, loading, fetches, workerVars>>

(* The screen takes what the registry has by now; a refresh is over.       *)
ShowList ==
  /\ main \in {"show", "finally"}
  /\ ui' = list
  /\ loading' = (IF main = "finally" THEN FALSE ELSE loading)
  /\ main' = "free"
  /\ UNCHANGED <<ids, list, shown, mapped, fetches, workerVars>>

RefreshSkills ==
  /\ main = "free" /\ fetches < MaxFetches
  /\ fetches' = fetches + 1 /\ loading' = TRUE
  /\ UNCHANGED <<ids, list, ui, shown, main, mapped, workerVars>>

(* Mutant of Fetched: an empty answer is taken as it is.                   *)
FetchedRaw ==
  /\ main = "free" /\ fetches > 0
  /\ \E skills \in SUBSET Skills : list' = Marked(skills)
  /\ mapped' = list'
  /\ fetches' = fetches - 1 /\ main' = "finally"
  /\ raced' = FALSE /\ returned' = FALSE
  /\ UNCHANGED <<ids, ui, shown, loading, worker, missed>>

(* The list of the service, or the built-in one when there is none, it is  *)
(* empty, or the request fails.                                            *)
Fetched ==
  /\ main = "free" /\ fetches > 0
  /\ \E skills \in (SUBSET Skills) \ {{}} : list' = Marked(skills)
  /\ mapped' = list'
  /\ fetches' = fetches - 1 /\ main' = "finally"
  /\ raced' = FALSE /\ returned' = FALSE
  /\ UNCHANGED <<ids, ui, shown, loading, worker, missed>>

(* Mutant of Collect: nothing is shown under the spinner.                  *)
CollectIdle ==
  /\ main = "free" /\ shown # list
  /\ ui' = (IF loading THEN ui ELSE list) /\ shown' = list
  /\ UNCHANGED <<ids, list, callVars, workerVars>>

(* The flow gives the collector the value of the moment, if it is not the  *)
(* one it gave last.                                                       *)
Collect ==
  /\ main = "free" /\ shown # list
  /\ ui' = list /\ shown' = list
  /\ UNCHANGED <<ids, list, callVars, workerVars>>
-----------------------------------------------------------------------------
(* A SyncWorker. *)

(* A failed request or sync leaves the registry alone. *)
SyncRead(w) ==
  /\ worker[w] = Idle
  /\ \E skills \in (SUBSET Skills) \ {{}} : worker' = [worker EXCEPT ![w] = Marked(skills)]
  /\ UNCHANGED <<ids, list, ui, shown, callVars, missed, raced, returned>>

SyncWrite(w) ==
  /\ worker[w] # Idle
  /\ list' = worker[w]
  /\ raced' = (w \in missed)
  /\ returned' = (worker[w] = shown)
  /\ worker' = [worker EXCEPT ![w] = Idle]
  /\ missed' = missed \ {w}
  /\ UNCHANGED <<ids, ui, shown, callVars>>

Main ==
  \/ \E s \in Skills : Toggle(s)
  \/ MapList \/ WriteList \/ ShowList \/ RefreshSkills \/ Fetched \/ Collect

Next == Main \/ \E w \in Workers : SyncRead(w) \/ SyncWrite(w)

Spec == Init /\ [][Next]_vars

(* Calls on the main thread end, and requests have a time limit.           *)
FairSpec ==
  /\ Spec
  /\ WF_vars(MapList) /\ WF_vars(WriteList) /\ WF_vars(ShowList)
  /\ SF_vars(Fetched) /\ SF_vars(Collect)
-----------------------------------------------------------------------------
(* Properties. *)

(* Every variable keeps its type; no list is empty.                        *)
TypeOK ==
  /\ ids \subseteq Skills
  /\ {list, ui, shown, mapped} \subseteq Lists
  /\ loading \in BOOLEAN /\ fetches \in 0 .. MaxFetches
  /\ main \in {"free", "map", "write", "show", "finally"}
  /\ worker \in [Workers -> Lists \cup {Idle}]
  /\ missed \subseteq Workers
  /\ raced \in BOOLEAN /\ returned \in BOOLEAN

TrueOf(skills) == \A s \in DOMAIN skills : skills[s] <=> s \in ids

(* The flags of the list say what is installed, but while a toggle is      *)
(* under way and after a worker wrote flags it read before a toggle: no    *)
(* other order of the unlocked reads and writes can leave them wrong       *)
(* (SkillRegistry.kt:139-155).                                             *)
FlagsTrue ==
  main \in {"free", "show", "finally"} /\ ~raced => TrueOf(list)

(* The screen shows the list of the registry or is about to, but after a   *)
(* worker brought back the very list the collector saw last: the flow does *)
(* not report it, and what the main thread showed meanwhile stays          *)
(* (SkillStoreViewModel.kt:36-37, 63, 74).                                 *)
ScreenTrue ==
  main = "free" /\ shown = list /\ ~returned => ui = list

(* The inductive strengthening: what is about to be written has the flags  *)
(* of the moment, unless it was read too early.                            *)
WriteInv ==
  /\ main = "write" => TrueOf(mapped)
  /\ \A w \in Workers : worker[w] # Idle /\ w \notin missed => TrueOf(worker[w])

SyncInv == TypeOK /\ WriteInv /\ FlagsTrue /\ ScreenTrue

(* The spinner of a refresh stops (SkillStoreViewModel.kt:48, 62-63).      *)
LoadingEnds == loading ~> ~loading
=============================================================================

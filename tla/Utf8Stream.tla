------------------------------ MODULE Utf8Stream ------------------------------
(***************************************************************************)
(* The reassembly of UTF-8 characters from the pieces of text that tokens  *)
(* decode to: drainCompleteUtf8, of which llama-bridge.cpp and             *)
(* colibri_jni_bridge.cpp each have a copy, and the end of a generation,   *)
(* where they differ: one drops a cut character, the other passes it on.   *)
(*                                                                         *)
(* A byte is known by its class: ASCII "a", the first byte of a character  *)
(* of 2, 3 or 4 bytes, a continuation "c", any other "x".                  *)
(***************************************************************************)
EXTENDS Integers, Sequences

CONSTANTS
  MaxBytes,   \* bytes of an answer
  MaxPiece    \* bytes of a token

ASSUME StreamAssumption == MaxBytes \in Nat /\ MaxPiece \in Nat

First == {"2", "3", "4"}
Bytes == First \cup {"a", "c", "x"}
Replacement == "r"

VARIABLES
  bridge,   \* whose copy it is
  carry,    \* bytes kept for the next piece
  text,     \* bytes given to Kotlin
  fed,      \* history: all bytes of the answer so far
  ended

vars == <<bridge, carry, text, fed, ended>>

Init ==
  /\ bridge \in {"llama", "colibri"}
  /\ carry = <<>> /\ text = <<>> /\ fed = <<>> /\ ended = FALSE
-----------------------------------------------------------------------------
Width(b) == CASE b = "2" -> 2 [] b = "3" -> 3 [] b = "4" -> 4 [] OTHER -> 1

(* Mutant of Whole: one continuation is taken for granted.                 *)
WholeButOne(s) ==
  /\ s[1] \in First \cup {"a"} /\ Width(s[1]) <= Len(s)
  /\ \A k \in 3 .. Width(s[1]) : s[k] = "c"

(* s begins with a whole character. *)
Whole(s) ==
  /\ s[1] \in First \cup {"a"} /\ Width(s[1]) <= Len(s)
  /\ \A k \in 2 .. Width(s[1]) : s[k] = "c"

(* Mutant of Awaits: an interrupted character is waited for as well.       *)
AwaitsAny(s) == s[1] \in First /\ ~Whole(s)

(* Mutant of Awaits: a character that lacks one byte is not waited for.    *)
AwaitsTwo(s) == Len(s) < Width(s[1]) - 1 /\ \A k \in 2 .. Len(s) : s[k] = "c"

(* All of s is the beginning of one character, which may be completed. *)
Awaits(s) == Len(s) < Width(s[1]) /\ \A k \in 2 .. Len(s) : s[k] = "c"

(* One iteration of the loop: the bytes it passes, what it puts out for    *)
(* them and what it leaves to the next.                                    *)
Taken(s) == IF Whole(s) THEN Width(s[1]) ELSE 1
Piece(s) == IF Whole(s) THEN SubSeq(s, 1, Taken(s)) ELSE <<Replacement>>
After(s) == SubSeq(s, Taken(s) + 1, Len(s))

(* What is put out of s, and what is kept of it. *)
Drained[s \in Seq(Bytes)] ==
  IF s = <<>> \/ Awaits(s) THEN [out |-> <<>>, rest |-> s]
  ELSE LET later == Drained[After(s)]
       IN  [out |-> Piece(s) \o later.out, rest |-> later.rest]

(* Mutant of Feed: the carry does not outlive the call.                    *)
FeedAlone(piece) ==
  /\ ~ended /\ Len(fed) + Len(piece) <= MaxBytes
  /\ fed' = fed \o piece
  /\ text' = text \o Drained[piece].out
  /\ carry' = Drained[piece].rest
  /\ UNCHANGED <<bridge, ended>>

(* drainCompleteUtf8, and the callback with what is complete.              *)
Feed(piece) ==
  /\ ~ended /\ Len(fed) + Len(piece) <= MaxBytes
  /\ fed' = fed \o piece
  /\ text' = text \o Drained[carry \o piece].out
  /\ carry' = Drained[carry \o piece].rest
  /\ UNCHANGED <<bridge, ended>>

(* The generation ends, at its end or cut short. *)
End ==
  /\ ~ended
  /\ ended' = TRUE /\ carry' = <<>>
  /\ text' = IF bridge = "colibri" THEN text \o carry ELSE text
  /\ UNCHANGED <<bridge, fed>>

Next == End \/ \E k \in 1 .. MaxPiece : \E piece \in [1 .. k -> Bytes] : Feed(piece)

Spec == Init /\ [][Next]_vars
-----------------------------------------------------------------------------
(* Properties. *)

(* The size of a character in UTF-8, by its first byte. *)
SizeOf == [b \in First |-> CASE b = "2" -> 2 [] b = "3" -> 3 [] b = "4" -> 4]

(* s is a sequence of whole characters and replacements. *)
WellFormed(s) ==
  \A i \in DOMAIN s :
    /\ s[i] # "x"
    /\ s[i] \in First => /\ i + SizeOf[s[i]] - 1 <= Len(s)
                         /\ \A k \in 1 .. SizeOf[s[i]] - 1 : s[i + k] = "c"
    /\ s[i] = "c" => \E k \in 1 .. 3 : /\ i - k >= 1 /\ s[i - k] \in First
                                       /\ k < SizeOf[s[i - k]]

Tails == {SubSeq(<<"c", "c", "c">>, 1, k) : k \in 0 .. 3}

Continues(s) == \E tail \in Tails : WellFormed(s \o tail)

(* Every variable keeps its type; the carry is never more than the         *)
(* beginning of one character (llama-bridge.cpp:299-303).                  *)
TypeOK ==
  /\ bridge \in {"llama", "colibri"} /\ ended \in BOOLEAN
  /\ carry # <<>> => /\ carry[1] \in First /\ Len(carry) < SizeOf[carry[1]]
                     /\ \A k \in 2 .. Len(carry) : carry[k] = "c"
  /\ text \in Seq(Bytes \cup {Replacement}) /\ Len(fed) <= MaxBytes

(* Where the tokens cut the bytes makes no difference to the text: it is   *)
(* what draining the answer in one piece gives (llama-bridge.cpp:256-318). *)
CutIndependent ==
  ~ended => text = Drained[fed].out /\ carry = Drained[fed].rest

(* Only whole characters are put out, whatever bytes come in, and at the   *)
(* end of a llama.cpp generation too (llama-bridge.cpp:250-255, 731-736).  *)
OnlyWholeCharacters == ~ended \/ bridge = "llama" => WellFormed(text)

(* Of valid text nothing is lost, added, replaced or reordered, wherever   *)
(* the tokens cut its characters: the text and the carry are all of it,    *)
(* and an answer that ends with a whole character has been shown to the    *)
(* end (llama-bridge.cpp:299-303, colibri_jni_bridge.cpp:147-150).         *)
(* What an answer that ends inside a character should show is left open:   *)
(* llama.cpp's drops the cut character, since JNI could crash on it        *)
(* (llama-bridge.cpp:731-736), and Colibri's passes it on                  *)
(* (colibri_jni_bridge.cpp:833-838).                                       *)
ValidTextKept ==
  /\ ~ended /\ Continues(fed) => text \o carry = fed
  /\ ended /\ WellFormed(fed) => text = fed
=============================================================================

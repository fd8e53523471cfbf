----------------------------- MODULE TimeTravel -----------------------------
(***************************************************************************)
(* What the rollback protocol promises about the text of one engine's      *)
(* runs, without a cache, positions or a loop: a run starts from a prompt, *)
(* its text grows, and a failed action is rewound in one step that leaves  *)
(* the prompt and everything before the anchor as it was.                  *)
(***************************************************************************)
EXTENDS Naturals, Sequences

CONSTANTS Token, Limit

VARIABLES
  text,     (* prompt, generated tokens and observations                     *)
  prompt,   (* length of the prompt                                          *)
  retries,  (* rewinds since the run began or an action succeeded            *)
  running

vars == <<text, prompt, retries, running>>

Init ==
  /\ text = <<>>
  /\ prompt = 0
  /\ retries = 0
  /\ running = FALSE

(* A run begins with its prompt, and may fail before it does anything. *)
Begin ==
  /\ ~ running
  /\ running' \in BOOLEAN
  /\ text' \in Seq(Token)
  /\ \A i \in DOMAIN text' : text'[i].kind = "prompt"
  /\ prompt' = Len(text')
  /\ retries' = 0

Grows(new) == Len(new) >= Len(text) /\ SubSeq(new, 1, Len(text)) = text

Extend ==
  /\ running
  /\ text' \in Seq(Token)
  /\ Grows(text')
  /\ running' \in BOOLEAN
  /\ UNCHANGED <<prompt, retries>>

(* An action that succeeded: its observation is added, retries start over. *)
Observe ==
  /\ running
  /\ text' \in Seq(Token)
  /\ Grows(text')
  /\ text'[Len(text')].kind = "success"
  /\ retries' = 0
  /\ UNCHANGED <<prompt, running>>

(* An action that failed: its observation replaces the text from the anchor.*)
Rewind ==
  /\ running
  /\ text # <<>> /\ text[Len(text)].kind = "close"
  /\ retries < Limit
  /\ \E from \in prompt .. Len(text) - 1 :
       /\ text' \in Seq(Token)
       /\ Len(text') > from
       /\ SubSeq(text', 1, from) = SubSeq(text, 1, from)
       /\ \A i \in from + 1 .. Len(text') : text'[i].kind = "error"
  /\ retries' = retries + 1
  /\ UNCHANGED <<prompt, running>>

(* The run is over; a rewind that broke off may have cut the text. *)
Over ==
  /\ running
  /\ running' = FALSE
  /\ \E from \in prompt .. Len(text) : text' = SubSeq(text, 1, from)
  /\ retries' \in {retries, retries + 1}
  /\ UNCHANGED prompt

Next == Begin \/ Extend \/ Observe \/ Rewind \/ Over

Spec == Init /\ [][Next]_vars
=============================================================================

---------------------------- MODULE OrderPromise ----------------------------
(***************************************************************************)
(* What placing an order over two services promises, with no mention of    *)
(* how: every request ends either placed, with its goods out of the        *)
(* warehouse, or refused, with its goods never taken or put back.  A       *)
(* request whose process was told something untrue (an error of what had   *)
(* been applied, or was applied later) is misled.  Its goods and outcome   *)
(* may disagree; they still move one way only, and no other request's      *)
(* suffer.                                                                 *)
(***************************************************************************)
CONSTANT Requests

VARIABLES
  goods,    \* "shelf": never taken, "out": written off, "back": written on
  outcome,  \* "open", "placed" or "refused"
  misled    \* the requests that are misled

vars == <<goods, outcome, misled>>

Init ==
  /\ goods = [r \in Requests |-> "shelf"]
  /\ outcome = [r \in Requests |-> "open"]
  /\ misled = {}

\* A request can become misled by any step of its own, and stays so.
Misleads(r) == misled' \in {misled, misled \cup {r}}

Take(r) ==
  /\ Misleads(r)
  /\ goods[r] = "shelf"
  /\ outcome[r] = "open" \/ r \in misled'
  /\ goods' = [goods EXCEPT ![r] = "out"]
  /\ UNCHANGED outcome

PutBack(r) ==
  /\ Misleads(r)
  /\ goods[r] = "out"
  /\ outcome[r] = "open" \/ r \in misled'
  /\ goods' = [goods EXCEPT ![r] = "back"]
  /\ UNCHANGED outcome

Place(r) ==
  /\ Misleads(r)
  /\ outcome[r] = "open" /\ goods[r] = "out"
  /\ outcome' = [outcome EXCEPT ![r] = "placed"]
  /\ UNCHANGED goods

Refuse(r) ==
  /\ Misleads(r)
  /\ outcome[r] = "open"
  /\ goods[r] # "out" \/ r \in misled'
  /\ outcome' = [outcome EXCEPT ![r] = "refused"]
  /\ UNCHANGED goods

Mislead(r) == misled' = misled \cup {r} /\ UNCHANGED <<goods, outcome>>

Next ==
  \E r \in Requests :
    Take(r) \/ PutBack(r) \/ Place(r) \/ Refuse(r) \/ Mislead(r)

\* Goods that left the shelf do not stay in limbo, unless the request is misled.
Settle(r) ==
  r \notin misled /\ UNCHANGED misled /\ (PutBack(r) \/ Place(r))

Safety == Init /\ [][Next]_vars
Spec == Safety /\ \A r \in Requests : WF_vars(Settle(r))
=============================================================================

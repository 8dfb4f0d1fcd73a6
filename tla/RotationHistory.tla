--------------------------- MODULE RotationHistory ---------------------------
(***************************************************************************)
(* ProxyLoop with history variables that count, for each group, the turns  *)
(* the round-robin strategy gave each key and the times the key was handed *)
(* out: how evenly the requests are spread over a group's keys.            *)
(***************************************************************************)
EXTENDS ProxyLoop

VARIABLES
  turns,               \* group -> key -> indexes drawn that start at the key
  handed               \* group -> key -> hand-outs; both since the last reload

rotationVars == <<vars, turns, handed>>

RequestGroup == Groups \cup {NoGroup}

NoCount == [g \in RequestGroup |-> [k \in Keys |-> 0]]

HistoryTypeOK ==
  /\ turns  \in [RequestGroup -> [Keys -> Nat]]
  /\ handed \in [RequestGroup -> [Keys -> Nat]]

\* The key at which the request begins its walk round the ring.
StartsAt(r, k) == CandidateAt(req[r].cands, req[r].start) = k

\* Whether this step gives the key its turn for a request of the group, or
\* hands it out to one.
GivesTurn(g, k) ==
  \E r \in Requests : /\ At(r, "select") /\ req[r].group = g
                      /\ req'[r].pc = "probe" /\ StartsAt(r, k)'

HandsOutFor(g, k) ==
  \E r \in Requests : /\ At(r, "probe") /\ req[r].group = g
                      /\ req'[r].pc = "send" /\ req'[r].key = k

RotationInit == Init /\ turns = NoCount /\ handed = NoCount

CountTurns ==
  IF reloads' # reloads
  THEN turns' = NoCount /\ handed' = NoCount
  ELSE /\ turns' = [g \in RequestGroup |-> [k \in Keys |->
                      turns[g][k] + (IF GivesTurn(g, k) THEN 1 ELSE 0)]]
       /\ handed' = [g \in RequestGroup |-> [k \in Keys |->
                      handed[g][k] + (IF HandsOutFor(g, k) THEN 1 ELSE 0)]]

RotationNext == Next /\ CountTurns

RotationSpec == RotationInit /\ [][RotationNext]_rotationVars
-----------------------------------------------------------------------------
\* A group whose name is DEFAULT_GROUP_ID shares its counter with the requests
\* that no group serves.
SharesCounter(g) == DefaultGroupId \in Groups /\ g \in {DefaultGroupId, NoGroup}

\* While no key of a group is blocked its keys are handed out evenly, whatever
\* other groups draw: no key is handed out more than once above the turns that
\* any other key has had.  A turn is a hand-out of that key, unless its request
\* is dropped by its client, or is still on its way (select_key).
RotationBalanced ==
  \A g \in RequestGroup :
    LET pool == CandidateKeys(g)
    IN  (~SharesCounter(g) /\ \A k \in pool : ~keyStates[k].blocked) =>
          \A a, b \in pool : handed[g][a] <= turns[g][b] + 1
=============================================================================

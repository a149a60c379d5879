------------------------------ MODULE CostLedger ------------------------------
(***************************************************************************)
(* What the table cost_data promises to whoever adds up its rows: it is a  *)
(* ledger of exact meter readings that nobody rewrites.  CostTracker       *)
(* implements it: nothing here says what the tracker remembers, in what    *)
(* order it goes through the pods, or what happens when a call fails.      *)
(***************************************************************************)
EXTENDS Naturals, Sequences

CONSTANTS Key, Kind, Shapes, Rate, Counted, Interval, Never

VARIABLES
  now,     \* the time
  lives,   \* every GPU pod that has run so far
  rows     \* the readings taken

vars == <<now, lives, rows>>

Init == now = 0 /\ lives = <<>> /\ rows = {}

Tick == now' = now + 1 /\ UNCHANGED <<lives, rows>>

Begin(k, kind) ==
  /\ kind \in Shapes[k]
  /\ \A l \in DOMAIN lives : lives[l].key = k => lives[l].end # Never
  /\ lives' = Append(lives, [key |-> k, kind |-> kind, start |-> now, end |-> Never])
  /\ UNCHANGED <<now, rows>>

End(l) ==
  /\ lives[l].end = Never
  /\ lives' = [lives EXCEPT ![l].end = now]
  /\ UNCHANGED <<now, rows>>

\* What a pod has cost from its start to this moment, at its own rate.
Reading(l) ==
  LET rate == Rate[lives[l].kind] IN
  [key |-> lives[l].key, pod |-> l, time |-> now,
   total |-> rate * (now - lives[l].start), rate |-> rate]

\* A pod that has ended is read on only if it is taken for another of its name,
\* which runs or has just ended.
Bears(name) == \E l \in DOMAIN lives : lives[l].key = name /\ lives[l].end \in {Never, now}

\* A name is read once an Interval at most, and the reading is added to those
\* there are.
Record(l) ==
  /\ lives[l].kind \in Counted
  /\ Bears(lives[l].key)
  /\ \A r \in rows : r.key = lives[l].key => r.time + Interval <= now
  /\ rows' = rows \cup {Reading(l)}
  /\ UNCHANGED <<now, lives>>

Next ==
  \/ Tick
  \/ \E k \in Key, kind \in Kind : Begin(k, kind)
  \/ \E l \in DOMAIN lives : End(l) \/ Record(l)

Spec == Init /\ [][Next]_vars
=============================================================================

---------------------------- MODULE InlineRange ----------------------------
(***************************************************************************)
(* Range and Size of src/inline: the walk of RangeScan over the bins of    *)
(* InlineMap.  Key and value of a slot are two words, loaded one after the *)
(* other, and are paired by nothing but the header that is compared after  *)
(* both loads.                                                             *)
(***************************************************************************)
EXTENDS InlineMap, RangeScan

InlineRangeInit ==
  /\ InlineInit
  /\ rng = RangeIdle
  /\ yielded = <<>>
  /\ stayed = {}
  /\ held = [k \in Key |-> {}]

\* The plain load of a slot's key ...
ReadKey ==
  LET i == Lowest(rng.slots) IN
  /\ rng.pc = "read" /\ rng.slots # {}
  /\ i < PRIMARY_SLOTS \/ rng.linked
  /\ rng' = [rng EXCEPT !.pc = "value",
                        !.buf = Append(@, [key |-> slotKey[LocVia(rng.lm, ScannedBin, i)],
                                           val |-> InitVal])]
  /\ UNCHANGED <<vars, yielded, stayed, held>>

\* ... and the atomic load of its value
ReadVal ==
  LET i == Lowest(rng.slots) IN
  /\ rng.pc = "value"
  /\ rng' = [rng EXCEPT !.pc = "read", !.slots = @ \ {i},
                        !.buf[Len(rng.buf)].val = slotVal[LocVia(rng.lm, ScannedBin, i)]]
  /\ UNCHANGED <<vars, yielded, stayed, held>>

\* scanBin, whose other steps are those of the other variant
scanBin == \/ RangeHeader \/ scanShards \/ ReadKey \/ ReadVal \/ RangeLinks
           \/ RangeYield \/ RangeStop \/ RangeRetry

InlineMapStep ==
  LET iterating == rng.pc \in {"load", "shards", "read", "value"} IN
  /\ \E t \in Thread : InlineInvoke(t) \/ InlineStep(t)
  /\ stayed' = IF iterating THEN {k \in stayed : map'[k] # Absent} ELSE stayed
  /\ held' = IF iterating THEN [k \in Key |-> held[k] \cup {map'[k]}] ELSE held
  /\ UNCHANGED <<rng, yielded>>

InlineRangeNext == (InlineMapStep \/ RangeCall \/ scanBin \/ RangeFinished) /\ UNCHANGED hist
InlineRangeSpec == InlineRangeInit /\ [][InlineRangeNext]_<<allVars, hist>>
=============================================================================

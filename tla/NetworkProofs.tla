--------------------------- MODULE NetworkProofs ----------------------------
(***************************************************************************)
(* What the parts of MCNetwork guarantee together, from the proofs about   *)
(* each of them.                                                           *)
(***************************************************************************)
EXTENDS MCNetwork, FaultProofs, PropagationProofs

\* A behaviour is one of a part.
PartKnown == part \in Parts

LEMMA PartStays == Spec => []PartKnown
<1>1. Init => PartKnown
  BY DEF Init, PartKnown
<1>2. PartKnown /\ [Next]_<<part, originVars, peerVars, batchVars, cfVars, hotVars>> => PartKnown'
  BY DEF Next, PartKnown
<1>. QED  BY <1>1, <1>2, PTL DEF Spec

\* Every part runs as it does by itself.
LEMMA PartsRun ==
  Spec => OriginSpec /\ PeerSpec /\ BatchSpec /\ PurgeSpec /\ HotSpec
<1>1. Init => OriginInit /\ PeerInit /\ BatchInit /\ PurgeInit /\ HotInit
  BY DEF Init
<1>2. [Next]_<<part, originVars, peerVars, batchVars, cfVars, hotVars>>
      => /\ [OriginNext]_originVars /\ [PeerNext]_peerVars /\ [BatchNext]_batchVars
         /\ [PurgeNext]_cfVars /\ [HotNext]_hotVars
  BY DEF Next
<1>. QED  BY <1>1, <1>2, PTL DEF Spec, OriginSpec, PeerSpec, BatchSpec, PurgeSpec, HotSpec

\* Types of every part of the network.
THEOREM NetworkTyped == Spec => []NetworkTypeOK
<1>1. Placed => BatchTypeOK
  BY DEF Placed
<1>2. PurgeInv => PurgeTypeOK
  BY DEF PurgeInv
<1>3. HotInv => HotTypeOK
  BY DEF HotInv
<1>4. PartKnown /\ OriginTypeOK /\ PeerTypeOK /\ BatchTypeOK /\ PurgeTypeOK /\ HotTypeOK => NetworkTypeOK
  BY DEF PartKnown, Parts, NetworkTypeOK
<1>. QED  BY <1>1, <1>2, <1>3, <1>4, PartStays, PartsRun, OriginTyped, PeersTyped, EventsPlaced,
             StartsAccounted, PurgeKept, HotStart, HotKept, PTL DEF PurgeSpec, HotSpec

\* The faults of origins and peers are contained: hedged callers, targets that
\* are out and the slots of peer fetches, whatever else goes on.
THEOREM FaultsContained == OriginSpec /\ PeerSpec => []FaultsAreContained
<1>1. HedgeSavesCaller /\ WayBack /\ SlotsAreHeld => FaultsAreContained
  BY DEF FaultsAreContained
<1>. QED  BY <1>1, HedgeSaves, WayBackHolds, SlotsHeld, PTL

\* The steps that are never taken: no target comes back early, no key moves
\* between two nodes that stay, no record is cleared without an answer.
THEOREM StepsRefused == OriginSpec /\ PeerSpec => StepsNotTaken
BY EjectForIsServed, RingIsConsistent, OnlyAnswers, PTL DEF StepsNotTaken

\* No purge for the CDN is lost without a trace (flush, apply and the retry
\* queue), a half-open circuit is probed, and the broadcaster's queues are
\* bounded.
THEOREM PurgesAreAccounted == PurgeSpec /\ BatchSpec => []PurgesAccounted
<1>1. PurgeInv => NoSilentLoss /\ HalfOpenIsProbed
  BY DEF PurgeInv
<1>2. NoSilentLoss /\ HalfOpenIsProbed /\ QueueBounded => PurgesAccounted
  BY DEF PurgesAccounted
<1>. QED  BY <1>1, <1>2, StartsAccounted, PurgeKept, QueuesBounded, PTL DEF PurgeSpec

\* What an operator is told of the settings holds: the report of a reload, the
\* diff after it, and a set that was acknowledged (reload and
\* hotSetFn).
THEOREM SettingsTold == HotSpec => []SettingsAreTold
<1>1. HotInv => SettingsAreTold
  BY ReportComplete, DiffComplete, SetInForce DEF SettingsAreTold
<1>. QED  BY <1>1, HotStart, HotKept, PTL DEF HotSpec

=============================================================================

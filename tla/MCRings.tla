------------------------------- MODULE MCRings -------------------------------
(***************************************************************************)
(* Instances for TLC of block requests and of sound, each with its device  *)
(* at the other end of a ring.  A behaviour is one of one component, the   *)
(* one that part names; the other keeps an initial state.                  *)
(***************************************************************************)
EXTENDS VirtioBlk, Sound

CONSTANTS v1, v2
VARIABLE part

TwoValues == {v1, v2}

(* Three sectors are a full request and a part of one.                     *)
TwoBuffers == {<<v1, v2, v2>>, <<v2, v1, v1>>}

RingsInit ==
    /\ part \in {"block", "sound"}
    /\ BlkInit /\ SoundInit
    /\ part # "block" => sectors = [s \in Sectors |-> v1]

BlockOnly == part = "block" /\ UNCHANGED <<sndVars, part>>
SoundOnly == part = "sound" /\ UNCHANGED <<blkVars, part>>

(* Sound may have nothing to do.                                           *)
RingsNext ==
    \/ BlockOnly /\ BlkNext
    \/ SoundOnly /\ SoundNext
    \/ SoundOnly /\ UNCHANGED sndVars

(* The fairness of BlkFairSpec and SoundFairSpec.                          *)
RingsFairness ==
    /\ \A t \in Callers : WF_blkVars(BlockOnly /\ CallerStep(t))
    /\ WF_blkVars(BlockOnly /\ Fetch) /\ WF_blkVars(BlockOnly /\ Serve)
    /\ WF_sndVars(SoundOnly /\ Worker) /\ WF_sndVars(SoundOnly /\ BufferEnds)

RingsSpec == RingsInit /\ [][RingsNext]_<<blkVars, sndVars, part>> /\ RingsFairness
==============================================================================

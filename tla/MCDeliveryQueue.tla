--------------------------- MODULE MCDeliveryQueue ---------------------------
(***************************************************************************)
(* TLC instance of DeliveryQueue.  A behaviour is of one of two scenes:       *)
(*   crowd  every row is an alert on a chat channel, all workers lease, one   *)
(*          may die or lose a write; nobody mutes;                           *)
(*   alone  one row of any class on any channel and one worker, with mutes,   *)
(*          freezes and failovers, and no faults.                            *)
(***************************************************************************)
EXTENDS DeliveryQueue, TLC

CONSTANTS Scenes, TheRow, TheWorker

VARIABLE scene

mcVars == <<scene, vars>>

MCInit ==
  /\ Init /\ scene \in Scenes
  /\ \A r, s \in Rows : queue[r] = queue[s]
  /\ scene = "crowd" =>
       \A r \in Rows : queue[r].class = "alert" /\ queue[r].channel \notin EmailChannels

\* What a step of a scene leaves as it was.  The rows of a crowd are alike: TheRow
\* stands for the one that is enqueued first.
InScene ==
  /\ UNCHANGED scene
  /\ scene = "crowd" => /\ UNCHANGED mutes
                        /\ queue'[TheRow].state = "absent" => UNCHANGED queue
  /\ scene = "alone" => /\ UNCHANGED faults
                        /\ \A r \in Rows \ {TheRow} : UNCHANGED queue[r]
                        /\ \A w \in Workers \ {TheWorker} : UNCHANGED task[w]

MCWorker(w) == WorkerStep(w) /\ InScene

MCSpec ==
  /\ MCInit /\ [][Next /\ InScene]_mcVars
  /\ (\A w \in Workers : WF_mcVars(MCWorker(w))) /\ WF_mcVars(Tick /\ InScene)
=============================================================================

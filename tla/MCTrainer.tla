------------------------------- MODULE MCTrainer -------------------------------
(* Every combination of the options that TrainerActor tells apart and the code  *)
(* can serve, and four that the job dies of.                                    *)
EXTENDS TrainerActor
MCServed ==
  {a \in [offload : BOOLEAN, colocate : BOOLEAN, backuper : BOOLEAN, ref : BOOLEAN, teacher : BOOLEAN,
          keepOld : BOOLEAN, interval1 : BOOLEAN, critic : BOOLEAN, rolloutLogprobs : BOOLEAN,
          advantages : BOOLEAN, replay : {"off", "record", "rollout"}, epochs : 1 .. 2,
          criticOnly : 0 .. 1, refInterval : {0, 2}] :
     /\ (a.interval1 => a.keepOld) /\ (a.refInterval > 0 => a.ref) /\ (a.criticOnly > 0 => a.critic)
     /\ Supported(a)}
\* Two epochs whose backup is a checksum; engine log-probs missing for them; a
\* reference without the backuper; a push from GPU memory that is paused.
MCTwoHashed == [offload |-> TRUE, colocate |-> TRUE, backuper |-> FALSE, ref |-> FALSE, teacher |-> FALSE,
                keepOld |-> FALSE, interval1 |-> FALSE, critic |-> FALSE, rolloutLogprobs |-> TRUE,
                advantages |-> TRUE, replay |-> "off", epochs |-> 2, criticOnly |-> 0, refInterval |-> 0]
MCDying == {MCTwoHashed, [MCTwoHashed EXCEPT !.rolloutLogprobs = FALSE],
            [MCTwoHashed EXCEPT !.ref = TRUE], [MCTwoHashed EXCEPT !.colocate = FALSE]}
MCConfigurations == MCServed \cup MCDying
\* The options of the browser scripts: two epochs, log-probs of the engines, colocated engines.
MCTwoEpochs == {a \in MCServed : a.epochs = 2 /\ a.offload /\ a.colocate /\ a.advantages
                  /\ ~a.ref /\ ~a.teacher /\ ~a.keepOld}
=============================================================================

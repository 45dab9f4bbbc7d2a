---------------------------- MODULE ProcessGroups ----------------------------
(* ReloadableProcessGroup: with --offload-train the NCCL groups of a training  *)
(* job are destroyed between the calls of its actors and made again, by every  *)
(* rank on its own, while the model code keeps the objects it got from         *)
(* dist.new_group.  torch gives a group the number of groups that were made on *)
(* the rank as its name, and ranks meet in a collective only under the same    *)
(* name: all ranks have to make all groups in one order, for ever.             *)
EXTENDS Naturals, Sequences, FiniteSets

CONSTANTS Peer,
          GroupLayouts,  \* [groups, engines]: the groups of Megatron in the order it makes
                         \* them, [ranks, gloo], and the ranks of every colocated engine
          MaxRollout     \* bound: rollouts of the job

ASSUME GroupsAssumption ==
  /\ MaxRollout \in Nat
  /\ \A l \in GroupLayouts : /\ l.groups \in Seq([ranks : SUBSET Peer, gloo : BOOLEAN])
                            /\ l.engines \in Seq(SUBSET Peer)

VARIABLES
  job,       \* the layout
  call,      \* the call the driver waits for: all ranks are in it, or have ended it
  rollouts,
  left,      \* per rank: what is left of the call
  made,     \* per rank: groups made so far (torch's group_count)
  inner,     \* per rank and wrapped group: the name of .group; NoGroup for None
  ipc,       \* per rank: _ipc_gather_group is set
  slept,    \* per rank: torch_memory_saver has paused the GPU memory
  connects   \* calls of connect_rollout_engines
groupVars == <<job, call, rollouts, left, made, inner, ipc, slept, connects>>

NoGroup == 0
Ids == DOMAIN job.groups
\* new_group wraps neither gloo groups nor groups of one rank.
Wrapped == {i \in Ids : ~job.groups[i].gloo /\ Cardinality(job.groups[i].ranks) > 1}

-----------------------------------------------------------------------------
(* The calls of the driver, as each rank executes them.                        *)

Do(what) == [do |-> what, group |-> 0]
\* Collectives, on every group the rank is in, in the order of the groups.
Own(r) == {i \in Wrapped : r \in job.groups[i].ranks}
Nth(ids, k) == CHOOSE i \in ids : Cardinality({j \in ids : j <= i}) = k
Uses(r) == [k \in 1 .. Cardinality(Own(r)) |-> [do |-> "use", group |-> Nth(Own(r), k)]]

SleepCall == <<Do("destroy"), Do("pause")>>
\* Mutant: the push relies on the groups that training has left.
UpdateCallNoReload(r, new) ==
  (IF new THEN <<Do("connect")>> ELSE << >>) \o Uses(r) \o <<Do("destroy")>>
UpdateCall(r, new) ==
  <<Do("reload")>> \o (IF new THEN <<Do("connect")>> ELSE << >>) \o Uses(r) \o <<Do("destroy")>>
InitCall(r)  == <<Do("create")>> \o Uses(r) \o SleepCall
TrainCall(r) == <<Do("resume"), Do("reload")>> \o Uses(r)
SaveCall(r)  == <<Do("reload")>> \o Uses(r) \o <<Do("destroy")>>

\* The driver calls all ranks, and waits for all.
CallAll(next, script) ==
  /\ \A r \in Peer : left[r] = << >>
  /\ call' = next /\ left' = script
  /\ UNCHANGED <<job, made, inner, ipc, slept>>
BeginUpdate ==
  /\ call \in {"init", "offload"}
  /\ \E new \in IF connects = 0 THEN {TRUE} ELSE BOOLEAN :   \* num_new_engines > 0
       /\ CallAll("update", [r \in Peer |-> UpdateCall(r, new)])
       /\ connects' = IF new THEN connects + 1 ELSE connects
  /\ UNCHANGED rollouts
BeginTrain ==
  /\ call = "update" /\ rollouts < MaxRollout
  /\ CallAll("train", [r \in Peer |-> TrainCall(r)])
  /\ rollouts' = rollouts + 1 /\ UNCHANGED connects
BeginSave ==
  /\ call = "train" /\ CallAll("save", [r \in Peer |-> SaveCall(r)])
  /\ UNCHANGED <<rollouts, connects>>
BeginOffload ==
  /\ call \in {"train", "save"} /\ CallAll("offload", [r \in Peer |-> SleepCall])
  /\ UNCHANGED <<rollouts, connects>>

-----------------------------------------------------------------------------
(* The steps of a rank.                                                        *)

Step(r, what) ==
  /\ left[r] # << >> /\ Head(left[r]).do = what
  /\ left' = [left EXCEPT ![r] = Tail(@)]
  /\ UNCHANGED <<job, call, rollouts, connects>>

\* The names of the groups in ids, made in that order; the others stay.
Made(r, ids) ==
  [i \in Ids |-> IF i \in ids THEN made[r] + Cardinality({j \in ids : j <= i}) ELSE inner[r][i]]

\* Megatron makes its groups on all ranks, wherever their members are.
Create(r) ==
  /\ Step(r, "create")
  /\ made' = [made EXCEPT ![r] = @ + Len(job.groups)]
  /\ inner' = [inner EXCEPT ![r] = [i \in Ids |-> IF i \in Wrapped THEN Made(r, Ids)[i] ELSE NoGroup]]
  /\ UNCHANGED <<ipc, slept>>

Gone(r) == {i \in Wrapped : inner[r][i] = NoGroup}
\* Mutant: a rank makes the groups again that it is in.
ReloadOwn(r) ==
  LET own == Gone(r) \cap Own(r)
  IN  /\ Step(r, "reload")
      /\ inner' = [inner EXCEPT ![r] = Made(r, own)]
      /\ made' = [made EXCEPT ![r] = @ + Cardinality(own)]
      /\ UNCHANGED <<ipc, slept>>
\* reload_process_groups: those that are there stay.
Reload(r) ==
  /\ Step(r, "reload")
  /\ inner' = [inner EXCEPT ![r] = Made(r, Gone(r))]
  /\ made' = [made EXCEPT ![r] = @ + Cardinality(Gone(r))]
  /\ UNCHANGED <<ipc, slept>>

Destroy(r) ==
  /\ Step(r, "destroy")
  /\ inner' = [inner EXCEPT ![r] = [i \in Ids |-> NoGroup]]
  /\ UNCHANGED <<made, ipc, slept>>

Pause(r)  == Step(r, "pause") /\ slept' = [slept EXCEPT ![r] = TRUE] /\ UNCHANGED <<made, inner, ipc>>
Resume(r) == Step(r, "resume") /\ slept' = [slept EXCEPT ![r] = FALSE] /\ UNCHANGED <<made, inner, ipc>>

\* connect_rollout_engines: the gloo groups to gather for an engine, unless the
\* rank has its own.
Connect(r) ==
  /\ Step(r, "connect")
  /\ made' = [made EXCEPT ![r] = IF ipc[r] THEN @ ELSE @ + Len(job.engines)]
  /\ ipc' = [ipc EXCEPT ![r] = @ \/ \E e \in DOMAIN job.engines : r \in job.engines[e]]
  /\ UNCHANGED <<inner, slept>>

AtUse(r) == left[r] # << >> /\ Head(left[r]).do = "use"
GroupOf(r) == Head(left[r]).group
NameAt(r) == inner[r][GroupOf(r)]
\* The ranks a collective of r waits for: a wrapper that holds None passes it on
\* to torch.distributed, which takes the group of all ranks for it.
Party(r) == IF NameAt(r) = NoGroup THEN Peer ELSE job.groups[GroupOf(r)].ranks
Meets(r) == AtUse(r) /\ \A s \in Party(r) : AtUse(s) /\ NameAt(s) = NameAt(r) /\ Party(s) = Party(r)
Collective(r) ==
  /\ Meets(r)
  /\ left' = [s \in Peer |-> IF s \in Party(r) THEN Tail(left[s]) ELSE left[s]]
  /\ UNCHANGED <<job, call, rollouts, made, inner, ipc, slept, connects>>

GroupsInit ==
  /\ job \in GroupLayouts
  /\ call = "init" /\ rollouts = 0 /\ connects = 0
  /\ left = [r \in Peer |-> InitCall(r)]
  /\ made = [r \in Peer |-> 1]          \* the gloo group of init_gloo_group
  /\ inner = [r \in Peer |-> [i \in Ids |-> NoGroup]]
  /\ ipc = [r \in Peer |-> FALSE] /\ slept = [r \in Peer |-> FALSE]
GroupsNext ==
  \/ BeginUpdate \/ BeginTrain \/ BeginSave \/ BeginOffload
  \/ \E r \in Peer : Create(r) \/ Reload(r) \/ Destroy(r) \/ Pause(r) \/ Resume(r) \/ Connect(r) \/ Collective(r)

GroupsSpec == GroupsInit /\ [][GroupsNext]_groupVars

-----------------------------------------------------------------------------
\* A rank outside of all engines has no group of its own, and makes the groups of
\* the others again when engines are connected anew: its count is ahead for good.
CountsApart ==
  /\ connects > 1
  /\ \E r, s \in Peer : /\ \E e \in DOMAIN job.engines : r \in job.engines[e]
                        /\ \A e \in DOMAIN job.engines : s \notin job.engines[e]

\* The members of a group never meet under different names, and never in the
\* group of all ranks instead; nobody waits for ever; no rank gives up its GPU
\* memory with a group alive, and without it only pushes weights.  This holds in
\* every order of destroying and making groups that init, training, saving,
\* offloading and pushing lead to (reload_process_groups), except after a
\* reconnection with ranks outside of the engines.
GroupsMeet ==
  ~CountsApart =>
    /\ \A r, s \in Peer : AtUse(r) /\ AtUse(s) /\ GroupOf(r) = GroupOf(s) =>
         NameAt(r) = NameAt(s) /\ NameAt(r) # NoGroup
    /\ (\E r \in Peer : left[r] # << >>) => \E r \in Peer : left[r] # << >> /\ (~AtUse(r) \/ Meets(r))
    /\ \A r \in Peer : left[r] # << >> /\ Head(left[r]).do = "pause" =>
         \A i \in Ids : inner[r][i] = NoGroup
    /\ \A r \in Peer : AtUse(r) /\ slept[r] => call = "update"
=============================================================================

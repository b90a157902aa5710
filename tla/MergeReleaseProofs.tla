------------------------- MODULE MergeReleaseProofs -------------------------
(***************************************************************************)
(* Proofs about MergeRelease, for any number of pushes, runs and things    *)
(* the operator does in between: what a pull request has, and that no run  *)
(* throws away a merge.                                                    *)
(***************************************************************************)
EXTENDS MergeRelease, TLAPS

(* The rest of a run, in its own order, from each function on.             *)
FromShow == {<<"show_diff", "create_pr">>, <<"create_pr">>}
ToMerge ==
  { <<"update_submodules", "merge", "show_diff", "create_pr">>,
    <<"merge", "show_diff", "create_pr">> }
ToCheckout ==
  { <<"fetch", "checkout", "update_submodules", "merge", "show_diff", "create_pr">>,
    <<"checkout", "update_submodules", "merge", "show_diff", "create_pr">> }
ToContinue == {<<"continue_merge", "show_diff", "create_pr">>}

(* What is fetched is upstream, and what was merged was fetched.           *)
RemoteInv ==
  /\ upstream \in [Release -> Version] /\ tracking \in [Release -> Version]
  /\ \A r \in Release : tracking[r] <= upstream[r]
  /\ branch \in [{"merge", "other"} -> Commit]
  /\ \A b \in {"merge", "other"} : /\ branch[b].base <= tracking["current"]
                                   /\ branch[b].merged <= tracking["previous"]
  /\ merging \in Version /\ merging <= tracking["previous"]

WorktreeInv ==
  /\ head \in {"merge", "other"} /\ resolution \in {"none", "staged", "ours"}
  /\ edited \in BOOLEAN /\ bumps \in BOOLEAN /\ submodule \in BOOLEAN
  /\ merging # None => head = "merge" /\ branch["merge"].merged = None

(* What each part of a run finds.                                          *)
RunInv ==
  /\ cont \in BOOLEAN /\ continued \in BOOLEAN
  /\ todo \in {<<>>} \cup FromShow \cup ToMerge \cup ToCheckout \cup ToContinue
  /\ todo \in ToContinue => cont /\ ~continued
  /\ todo \in ToCheckout \cup ToMerge => ~cont /\ ~continued /\ merging = None
  /\ todo \in ToMerge => head = "merge" /\ branch["merge"].merged = None
                           /\ ~branch["merge"].own
  /\ todo \in FromShow /\ ~cont => head = "merge" /\ ~branch["merge"].own /\ ~continued
  /\ todo \in FromShow /\ continued =>
       head = "merge" /\ branch["merge"].merged # None /\ branch["merge"].own

IInv == RemoteInv /\ WorktreeInv /\ RunInv /\ ProposalHasTheMerge
----------------------------------------------------------------------------
(* What is called, and what is left to call then.                          *)
LEMMA Calls ==
  ASSUME RunInv, todo # <<>>
  PROVE  /\ Calling("fetch") => todo \in ToCheckout /\ Tail(todo) \in ToCheckout
         /\ Calling("checkout") => todo \in ToCheckout /\ Tail(todo) \in ToMerge
         /\ Calling("update_submodules") => todo \in ToMerge /\ Tail(todo) \in ToMerge
         /\ Calling("merge") => todo \in ToMerge /\ Tail(todo) \in FromShow
         /\ Calling("continue_merge") => todo \in ToContinue /\ Tail(todo) \in FromShow
         /\ Calling("show_diff") => todo \in FromShow /\ Tail(todo) \in FromShow
         /\ Calling("create_pr") => todo \in FromShow /\ Tail(todo) = <<>>
<1>1. CASE todo = <<"fetch", "checkout", "update_submodules", "merge", "show_diff", "create_pr">>
  BY <1>1 DEF Calling, ToCheckout
<1>2. CASE todo = <<"checkout", "update_submodules", "merge", "show_diff", "create_pr">>
  BY <1>2 DEF Calling, ToCheckout, ToMerge
<1>3. CASE todo = <<"update_submodules", "merge", "show_diff", "create_pr">>
  BY <1>3 DEF Calling, ToMerge
<1>4. CASE todo = <<"merge", "show_diff", "create_pr">>
  BY <1>4 DEF Calling, ToMerge, FromShow
<1>5. CASE todo = <<"continue_merge", "show_diff", "create_pr">>
  BY <1>5 DEF Calling, ToContinue, FromShow
<1>6. CASE todo = <<"show_diff", "create_pr">>
  BY <1>6 DEF Calling, FromShow
<1>7. CASE todo = <<"create_pr">>
  BY <1>7 DEF Calling, FromShow
<1> QED BY <1>1, <1>2, <1>3, <1>4, <1>5, <1>6, <1>7
       DEF RunInv, FromShow, ToMerge, ToCheckout, ToContinue

(* The parts of a run are told apart.                                      *)
LEMMA Parts ==
  /\ <<>> \notin FromShow \cup ToMerge \cup ToCheckout \cup ToContinue
  /\ FromShow \cap ToMerge = {} /\ FromShow \cap ToCheckout = {} /\ FromShow \cap ToContinue = {}
  /\ ToMerge \cap ToCheckout = {} /\ ToMerge \cap ToContinue = {} /\ ToCheckout \cap ToContinue = {}
<1>1. \A t \in FromShow : Len(t) \in {1, 2}
  BY DEF FromShow
<1>2. \A t \in ToMerge : Len(t) \in {3, 4} /\ Head(t) \in {"update_submodules", "merge"}
  BY DEF ToMerge
<1>3. \A t \in ToCheckout : Len(t) \in {5, 6}
  BY DEF ToCheckout
<1>4. \A t \in ToContinue : Len(t) = 3 /\ Head(t) = "continue_merge"
  BY DEF ToContinue
<1>5. Len(<<>>) = 0
  OBVIOUS
<1> QED BY <1>1, <1>2, <1>3, <1>4, <1>5
----------------------------------------------------------------------------
LEMMA InitOK == Init => IInv
<1> SUFFICES ASSUME Init PROVE IInv
  OBVIOUS
<1>1. RemoteInv
  <2>1. 0 \in Version /\ 1 \in Version
    BY MergeAssumption DEF Version
  <2>2. upstream \in [Release -> Version] /\ \A r \in Release : upstream[r] <= upstream[r]
    BY <2>1 DEF Init, Version
  <2>3. \A b \in {"merge", "other"} :
          branch[b] \in Commit /\ branch[b].base = 0 /\ branch[b].merged = 0
    BY <2>1 DEF Init, Commit, None
  <2>4. \A r \in Release : 0 <= tracking[r]
    BY <2>2 DEF Init, Version
  <2> QED BY <2>1, <2>2, <2>3, <2>4 DEF Init, RemoteInv, Release, None
<1>2. WorktreeInv /\ RunInv /\ ProposalHasTheMerge
  BY Parts DEF Init, WorktreeInv, RunInv, ProposalHasTheMerge, None
<1> QED BY <1>1, <1>2 DEF IInv
----------------------------------------------------------------------------
(* Others, and the operator between two runs. *)
LEMMA PushOK == ASSUME IInv, Push PROVE IInv'
<1>1. PICK r \in Release : upstream[r] < MaxPush /\ upstream' = [upstream EXCEPT ![r] = @ + 1]
  BY DEF Push
<1>2. UNCHANGED <<tracking, branch, worktree, todo, run, said>>
  BY DEF Push
<1>3. RemoteInv'
  <2>1. upstream[r] + 1 \in Version
    BY <1>1, MergeAssumption DEF IInv, RemoteInv, Version
  <2>2. upstream' \in [Release -> Version] /\ \A s \in Release : upstream[s] <= upstream'[s]
    BY <1>1, <2>1, MergeAssumption DEF IInv, RemoteInv, Version
  <2>3. \A s \in Release : tracking'[s] <= upstream'[s]
    BY <1>2, <2>2, MergeAssumption DEF IInv, RemoteInv, Version
  <2> QED BY <1>2, <2>2, <2>3 DEF IInv, RemoteInv, worktree
<1> QED BY <1>2, <1>3 DEF IInv, WorktreeInv, RunInv, ProposalHasTheMerge, worktree, run, said

LEMMA OperatorOK ==
  ASSUME IInv, Resolve \/ AbortMerge \/ SwitchBranch \/ EditFiles \/ UpdateByHand
  PROVE  IInv'
<1>1. /\ todo = <<>> /\ UNCHANGED <<remote, branch, bumps, todo, run, said>>
      /\ resolution' \in {"none", "staged", "ours"} /\ head' \in {"merge", "other"}
      /\ edited' \in BOOLEAN /\ submodule' \in BOOLEAN
      /\ merging' \in {None, merging} /\ (merging # None => head' = head)
  BY DEF Resolve, AbortMerge, SwitchBranch, EditFiles, UpdateByHand, Running, Recorded,
         IInv, WorktreeInv
<1>2. None \in Version /\ None <= tracking["previous"]
  BY MergeAssumption DEF IInv, RemoteInv, Version, Release, None
<1>3. RemoteInv' /\ WorktreeInv'
  BY <1>1, <1>2 DEF IInv, RemoteInv, WorktreeInv, remote
<1>4. RunInv' /\ ProposalHasTheMerge'
  BY <1>1, Parts DEF IInv, RunInv, ProposalHasTheMerge, run, said
<1> QED BY <1>3, <1>4 DEF IInv
----------------------------------------------------------------------------
(* The functions of the script. *)
LEMMA mainOK == ASSUME IInv, main PROVE IInv'
<1>1. /\ UNCHANGED <<remote, branch, worktree, said>>
      /\ cont' \in BOOLEAN /\ continued' = FALSE
      /\ cont' => todo' \in ToContinue
      /\ ~cont' => todo' = <<>> \/ (merging = None /\ todo' \in ToCheckout)
  BY DEF main, MayStart, merge_in_progress, ToContinue, ToCheckout
<1>2. RemoteInv' /\ WorktreeInv' /\ ProposalHasTheMerge'
  BY <1>1 DEF IInv, RemoteInv, WorktreeInv, ProposalHasTheMerge, remote, worktree, said
<1>3. RunInv'
  BY <1>1, Parts DEF RunInv, worktree
<1> QED BY <1>2, <1>3 DEF IInv

LEMMA FailOK == ASSUME IInv, Fail PROVE IInv'
BY Parts DEF Fail, IInv, RemoteInv, WorktreeInv, RunInv, ProposalHasTheMerge,
             remote, worktree, run, said

LEMMA fetchOK == ASSUME IInv, fetch PROVE IInv'
<1>1. todo \in ToCheckout /\ todo' \in ToCheckout
  BY Calls DEF fetch, Return, Running, IInv, Calling
<1>2. UNCHANGED <<upstream, branch, worktree, run, said>> /\ tracking' = upstream
  BY DEF fetch
<1>3. RemoteInv'
  <2>1. \A r \in Release : tracking[r] <= tracking'[r] /\ upstream[r] <= upstream[r]
    BY <1>2 DEF IInv, RemoteInv, Version
  <2>2. \A b \in {"merge", "other"} : branch[b].base \in Nat /\ branch[b].merged \in Nat
    BY DEF IInv, RemoteInv, Commit, Version
  <2>3. /\ \A r \in Release : tracking[r] \in Nat /\ tracking'[r] \in Nat
        /\ merging \in Nat
    BY <1>2 DEF IInv, RemoteInv, Version
  <2>4. /\ tracking["current"] <= tracking'["current"] /\ tracking["previous"] <= tracking'["previous"]
        /\ {tracking["current"], tracking["previous"], tracking'["current"], tracking'["previous"]} \subseteq Nat
    BY <2>1, <2>3 DEF Release
  <2>5. \A b \in {"merge", "other"} : /\ branch[b].base <= tracking'["current"]
                                      /\ branch[b].merged <= tracking'["previous"]
    BY <2>2, <2>4 DEF IInv, RemoteInv
  <2>6. merging <= tracking'["previous"]
    BY <2>3, <2>4 DEF IInv, RemoteInv
  <2> QED BY <1>2, <2>1, <2>5, <2>6 DEF IInv, RemoteInv, worktree
<1>4. WorktreeInv' /\ ProposalHasTheMerge'
  BY <1>2 DEF IInv, WorktreeInv, ProposalHasTheMerge, worktree, said
<1>5. RunInv'
  BY <1>1, <1>2, Parts DEF IInv, RunInv, worktree, run
<1> QED BY <1>3, <1>4, <1>5 DEF IInv

LEMMA checkoutOK == ASSUME IInv, checkout PROVE IInv'
<1> DEFINE new == [base |-> tracking["current"], merged |-> None, own |-> FALSE]
<1>1. todo \in ToCheckout /\ todo' \in ToMerge
  BY Calls DEF checkout, Return, IInv, Calling
<1>2. /\ UNCHANGED <<remote, edited, bumps, submodule, run, said>>
      /\ branch' = [branch EXCEPT !["merge"] = new]
      /\ head' = "merge" /\ merging' = None /\ resolution' = "none"
  BY DEF checkout
<1>3. None \in Version /\ None <= tracking["previous"] /\ tracking["current"] \in Version
      /\ tracking["current"] <= tracking["current"]
  BY MergeAssumption DEF IInv, RemoteInv, Version, Release, None
<1>4. new \in Commit /\ new.merged = None /\ ~new.own /\ new.base = tracking["current"]
  BY <1>3 DEF Commit
<1> HIDE DEF new
<1>5. branch'["merge"] = new /\ branch' \in [{"merge", "other"} -> Commit]
      /\ branch'["other"] = branch["other"]
  BY <1>2, <1>4 DEF IInv, RemoteInv
<1>6. RemoteInv' /\ WorktreeInv'
  BY <1>2, <1>3, <1>4, <1>5 DEF IInv, RemoteInv, WorktreeInv, remote
<1>7. RunInv'
  BY <1>1, <1>2, <1>4, <1>5, Parts DEF IInv, RunInv, run
<1>8. ProposalHasTheMerge'
  BY <1>2 DEF IInv, ProposalHasTheMerge, said
<1> QED BY <1>6, <1>7, <1>8 DEF IInv

LEMMA updateOK == ASSUME IInv, update_submodules PROVE IInv'
<1>1. todo \in ToMerge /\ todo' \in ToMerge
  BY Calls DEF update_submodules, Return, IInv, Calling
<1>2. UNCHANGED <<remote, branch, head, merging, resolution, edited, bumps, run, said>>
      /\ submodule' \in BOOLEAN
  BY DEF update_submodules, Recorded, IInv, WorktreeInv
<1>3. RemoteInv' /\ WorktreeInv' /\ ProposalHasTheMerge'
  BY <1>2 DEF IInv, RemoteInv, WorktreeInv, ProposalHasTheMerge, remote, said
<1>4. RunInv'
  BY <1>1, <1>2, Parts DEF IInv, RunInv, run
<1> QED BY <1>3, <1>4 DEF IInv

LEMMA mergeOK == ASSUME IInv, merge PROVE IInv'
<1>1. todo \in ToMerge /\ Tail(todo) \in FromShow
  BY Calls DEF merge, IInv, Calling
<1>2. head = "merge" /\ branch["merge"].merged = None /\ ~branch["merge"].own
      /\ ~cont /\ ~continued /\ merging = None
  BY <1>1 DEF IInv, RunInv
<1>3. tracking["previous"] \in Version /\ tracking["previous"] <= tracking["previous"]
  BY MergeAssumption DEF IInv, RemoteInv, Version, Release
<1>4. CASE /\ branch' = [branch EXCEPT ![head].merged = tracking["previous"]]
           /\ Return /\ UNCHANGED worktree /\ UNCHANGED <<remote, run, said>>
  <2> DEFINE new == [branch["merge"] EXCEPT !.merged = tracking["previous"]]
  <2>1. new \in Commit /\ new.merged = tracking["previous"] /\ new.base = branch["merge"].base
        /\ new.own = branch["merge"].own
    BY <1>3 DEF IInv, RemoteInv, Commit
  <2>2. branch' = [branch EXCEPT !["merge"] = new]
    BY <1>2, <1>4
  <2> HIDE DEF new
  <2>3. branch'["merge"] = new /\ branch' \in [{"merge", "other"} -> Commit]
        /\ branch'["other"] = branch["other"]
    BY <2>1, <2>2 DEF IInv, RemoteInv
  <2>4. RemoteInv' /\ WorktreeInv'
    BY <1>2, <1>3, <1>4, <2>1, <2>3 DEF IInv, RemoteInv, WorktreeInv, remote, worktree
  <2>5. RunInv'
    BY <1>1, <1>2, <1>4, <2>1, <2>3, Parts DEF IInv, RunInv, Return, run, worktree
  <2> QED BY <1>4, <2>4, <2>5 DEF IInv, ProposalHasTheMerge, said
<1>5. CASE /\ merging' = tracking["previous"] /\ resolution' = "none" /\ todo' = <<>>
           /\ UNCHANGED <<branch, head, edited, bumps, submodule>> /\ UNCHANGED <<remote, run, said>>
  <2>1. RemoteInv' /\ WorktreeInv'
    BY <1>2, <1>3, <1>5 DEF IInv, RemoteInv, WorktreeInv, remote
  <2>2. RunInv' /\ ProposalHasTheMerge'
    BY <1>5, Parts DEF IInv, RunInv, ProposalHasTheMerge, run, said
  <2> QED BY <2>1, <2>2 DEF IInv
<1> QED BY <1>4, <1>5 DEF merge

LEMMA continueOK == ASSUME IInv, continue_merge PROVE IInv'
<1>1. todo \in ToContinue /\ todo' \in FromShow
  BY Calls DEF continue_merge, Return, IInv, Calling
<1>2. cont /\ ~continued
  BY <1>1 DEF IInv, RunInv
<1>3. UNCHANGED <<remote, head, edited, bumps, submodule, cont, said>>
  BY DEF continue_merge
<1>4. CASE merging = None
  <2>1. UNCHANGED <<branch, merging, resolution, continued>>
    BY <1>4 DEF continue_merge, merge_in_progress
  <2>2. RemoteInv' /\ WorktreeInv' /\ ProposalHasTheMerge'
    BY <1>3, <2>1 DEF IInv, RemoteInv, WorktreeInv, ProposalHasTheMerge, remote, said
  <2>3. RunInv'
    BY <1>1, <1>2, <1>3, <2>1, Parts DEF IInv, RunInv
  <2> QED BY <2>2, <2>3 DEF IInv
<1>5. CASE merging # None
  <2> DEFINE new == [branch["merge"] EXCEPT !.merged = merging, !.own = TRUE]
  <2>1. head = "merge"
    BY <1>5 DEF IInv, WorktreeInv
  <2>2. /\ branch' = [branch EXCEPT !["merge"] = new]
        /\ merging' = None /\ resolution' = "none" /\ continued' = TRUE
    BY <1>5, <2>1 DEF continue_merge, merge_in_progress
  <2>3. new \in Commit /\ new.merged = merging /\ new.base = branch["merge"].base /\ new.own
    BY DEF IInv, RemoteInv, Commit
  <2> HIDE DEF new
  <2>4. branch'["merge"] = new /\ branch' \in [{"merge", "other"} -> Commit]
        /\ branch'["other"] = branch["other"]
    BY <2>2, <2>3 DEF IInv, RemoteInv
  <2>5. None \in Version /\ None <= tracking["previous"]
    BY MergeAssumption DEF IInv, RemoteInv, Version, Release, None
  <2>6. RemoteInv' /\ WorktreeInv'
    BY <1>3, <2>1, <2>2, <2>3, <2>4, <2>5 DEF IInv, RemoteInv, WorktreeInv, remote
  <2>7. RunInv'
    BY <1>1, <1>2, <1>3, <1>5, <2>1, <2>2, <2>3, <2>4, Parts DEF IInv, RunInv
  <2> QED BY <1>3, <2>6, <2>7 DEF IInv, ProposalHasTheMerge, said
<1> QED BY <1>4, <1>5

LEMMA show_diffOK == ASSUME IInv, show_diff PROVE IInv'
<1>1. todo \in FromShow /\ todo' \in FromShow
  BY Calls DEF show_diff, Return, IInv, Calling
<1>2. UNCHANGED <<remote, branch, worktree, run, proposal>>
  BY DEF show_diff
<1>3. RemoteInv' /\ WorktreeInv' /\ ProposalHasTheMerge'
  BY <1>2 DEF IInv, RemoteInv, WorktreeInv, ProposalHasTheMerge, remote, worktree
<1>4. RunInv'
  BY <1>1, <1>2, Parts DEF IInv, RunInv, run, worktree
<1> QED BY <1>3, <1>4 DEF IInv

LEMMA create_prOK == ASSUME IInv, create_pr PROVE IInv'
<1> DEFINE p == [head |-> head, commit |-> branch[head], cont |-> cont, continued |-> continued]
<1>1. todo \in FromShow /\ todo' = <<>>
  BY Calls DEF create_pr, Return, IInv, Calling
<1>2. /\ UNCHANGED <<remote, branch, worktree, run>> /\ proposal' = <<p>>
      /\ branch[head].merged # None \/ branch[head].own
  BY DEF create_pr
<1>3. RemoteInv' /\ WorktreeInv' /\ RunInv'
  BY <1>1, <1>2, Parts DEF IInv, RemoteInv, WorktreeInv, RunInv, remote, run, worktree
<1>4. ~p.cont \/ p.continued =>
        p.head = "merge" /\ p.commit.merged # None /\ (p.continued <=> p.commit.own)
  BY <1>1, <1>2 DEF IInv, RunInv
<1>5. ProposalHasTheMerge'
  <2>1. proposal'[1] = p
    BY <1>2
  <2> HIDE DEF p
  <2> QED BY <1>4, <2>1 DEF ProposalHasTheMerge
<1> QED BY <1>3, <1>5 DEF IInv

LEMMA StutterOK == ASSUME IInv, UNCHANGED vars PROVE IInv'
BY DEF vars, IInv, RemoteInv, WorktreeInv, RunInv, ProposalHasTheMerge

(* What each function of a run finds, whatever was done between the runs.  *)
THEOREM Inductive == Spec => []IInv
<1>1. IInv /\ [Next]_vars => IInv'
  BY PushOK, OperatorOK, mainOK, FailOK, fetchOK, checkoutOK, updateOK, mergeOK, continueOK,
     show_diffOK, create_prOK, StutterOK DEF Next
<1> QED BY InitOK, <1>1, PTL DEF Spec
----------------------------------------------------------------------------
(* Merges are in progress on the merge branch only, of versions that were  *)
(* fetched; nothing is based on what the remote does not have.             *)
THEOREM TypeCorrect == Spec => []TypeOK
<1>1. IInv => TypeOK
  BY DEF IInv, RemoteInv, WorktreeInv, RunInv, TypeOK
<1> QED BY <1>1, Inductive, PTL

(* A pull request has the merge on the branch made for it, unless it comes *)
(* from --continue without a merge to continue.                            *)
THEOREM ProposalMerged == Spec => []ProposalHasTheMerge
BY Inductive, PTL DEF IInv

(* No run throws away a merge that is not committed: checkout, the only    *)
(* command that could, is not reached with one in progress.                *)
THEOREM NotDiscarded == Spec => MergeNotDiscarded
<1>1. IInv /\ [Next]_vars =>
        [Running /\ merging # None /\ merging' = None => branch'[head].merged = merging]_vars
  <2> SUFFICES ASSUME IInv, Next, Running, merging # None, merging' = None
               PROVE  branch'[head].merged = merging
    OBVIOUS
  <2>1. ~(Resolve \/ AbortMerge \/ SwitchBranch \/ EditFiles \/ UpdateByHand \/ main)
    BY DEF Resolve, AbortMerge, SwitchBranch, EditFiles, UpdateByHand, main, Running
  <2>2. ~(Push \/ Fail \/ fetch \/ update_submodules \/ show_diff \/ create_pr)
    BY DEF Push, Fail, fetch, update_submodules, show_diff, create_pr, worktree
  <2>3. ~checkout /\ ~merge
    <3>1. RunInv /\ todo # <<>>
      BY DEF IInv, Running
    <3>2. todo \notin ToCheckout \cup ToMerge
      BY DEF IInv, RunInv
    <3> QED BY <3>1, <3>2, Calls DEF checkout, merge
  <2>4. continue_merge
    BY <2>1, <2>2, <2>3 DEF Next
  <2>5. branch' = [branch EXCEPT ![head].merged = merging, ![head].own = TRUE]
    BY <2>4 DEF continue_merge, merge_in_progress
  <2> QED BY <2>5 DEF IInv, RemoteInv, WorktreeInv, Commit
<1> QED BY <1>1, Inductive, PTL DEF Spec, MergeNotDiscarded
============================================================================

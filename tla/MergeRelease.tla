---------------------------- MODULE MergeRelease ----------------------------
(***************************************************************************)
(* tools/merge.py: merge one release branch into another, on a branch made *)
(* for it, and propose the result as a pull request.  A conflict ends the  *)
(* run; once it is resolved, a run with --continue takes over from what is *)
(* left in the repository.  Any command may fail (check_call), which ends  *)
(* the run too, and the operator uses the repository in between.           *)
(***************************************************************************)
EXTENDS Naturals, Sequences, SequencesExt

CONSTANT MaxPush  \* bound: commits pushed to each release branch

ASSUME MergeAssumption == MaxPush \in Nat \ {0}

None == 0   \* of the previous release: nothing that is not merged yet

Version == 0..MaxPush
Release == {"current", "previous"}

(* The tip of a branch: the version of the current release it starts from, *)
(* that of the previous release merged into it, and commits of its own.    *)
Commit == [base : Version, merged : Version, own : BOOLEAN]

VARIABLES
  upstream,   \* the release branches of the remote
  tracking,   \* the same, as last fetched
  branch,     \* the merge branch and another one, of the operator
  head,       \* the branch checked out
  merging,    \* MERGE_HEAD: a version of the previous release, or None
  resolution, \* what the operator made of the conflicts: "none", "staged" or "ours"
  edited,     \* there are uncommitted changes, besides those of a merge
  bumps,      \* the previous release has a newer submodule
  submodule,  \* the checkout has that newer submodule
  todo,       \* functions that the run has still to call
  cont,       \* --continue
  continued,  \* history: the run found a merge to continue
  shown,      \* the diff shown last: a commit, and whether it has the submodule
  proposal    \* history: the last pull request, or an empty sequence

vars == <<upstream, tracking, branch, head, merging, resolution, edited, bumps, submodule,
          todo, cont, continued, shown, proposal>>

remote == <<upstream, tracking>>
worktree == <<head, merging, resolution, edited, bumps, submodule>>
run == <<cont, continued>>
said == <<shown, proposal>>

Init ==
  /\ upstream \in [Release -> {0, 1}] /\ tracking = upstream
  /\ branch = [b \in {"merge", "other"} |-> [base |-> 0, merged |-> None, own |-> b = "other"]]
  /\ head = "other" /\ merging = None /\ resolution = "none" /\ edited = FALSE
  /\ bumps \in BOOLEAN /\ submodule = FALSE
  /\ todo = <<>> /\ cont = FALSE /\ continued = FALSE
  /\ shown = [commit |-> branch["other"], submodule |-> FALSE]
  /\ proposal = <<>>

Calling(f) == todo # <<>> /\ Head(todo) = f
Running == todo # <<>>
Return == todo' = Tail(todo)

Recorded(c) == bumps /\ c.merged # None   \* the submodule that a commit names
----------------------------------------------------------------------------
(* Others push to the release branches. *)
Push ==
  /\ \E r \in Release :
       /\ upstream[r] < MaxPush
       /\ upstream' = [upstream EXCEPT ![r] = @ + 1]
  /\ UNCHANGED <<tracking, branch, worktree, todo, run, said>>

(* The operator, between runs. *)
Resolve ==
  /\ ~Running /\ merging # None
  /\ resolution' \in {"staged", "ours"}
  /\ UNCHANGED <<remote, branch, head, merging, edited, bumps, submodule, todo, run, said>>

AbortMerge ==
  /\ ~Running /\ merging # None
  /\ merging' = None /\ resolution' = "none"
  /\ UNCHANGED <<remote, branch, head, edited, bumps, submodule, todo, run, said>>

SwitchBranch ==
  /\ ~Running /\ merging = None /\ ~edited
  /\ head' = IF head = "merge" THEN "other" ELSE "merge"
  /\ UNCHANGED <<remote, branch, merging, resolution, edited, bumps, submodule, todo, run, said>>

EditFiles ==
  /\ ~Running
  /\ edited' = ~edited
  /\ UNCHANGED <<remote, branch, head, merging, resolution, bumps, submodule, todo, run, said>>

UpdateByHand ==
  /\ ~Running /\ merging = None
  /\ submodule' = Recorded(branch[head])
  /\ UNCHANGED <<remote, branch, head, merging, resolution, edited, bumps, todo, run, said>>
----------------------------------------------------------------------------
merge_in_progress == merging # None

(* git diff, of the checkout and of the index; a submodule that is not the *)
(* one the branch names is a difference as well.                           *)
uncommitted_changes ==
  edited \/ (merging # None /\ resolution # "ours") \/ submodule # Recorded(branch[head])

(* Fault: only the differences are looked at. *)
MayStartMerging == ~uncommitted_changes
MayStart == ~merge_in_progress /\ ~uncommitted_changes

main ==
  /\ ~Running
  /\ cont' \in BOOLEAN
  /\ todo' = IF cont' THEN <<"continue_merge", "show_diff", "create_pr">>
             ELSE IF MayStart
               THEN <<"fetch", "checkout", "update_submodules", "merge", "show_diff", "create_pr">>
               ELSE <<>>
  /\ continued' = FALSE
  /\ UNCHANGED <<remote, branch, worktree, said>>

Fail ==
  /\ Running
  /\ todo' = <<>>
  /\ UNCHANGED <<remote, branch, worktree, run, said>>

fetch ==
  /\ Calling("fetch")
  /\ tracking' = upstream
  /\ Return
  /\ UNCHANGED <<upstream, branch, worktree, run, said>>

(* Faults: the merge branch is made once and for all; it is moved, and the *)
(* branch of the operator stays checked out.                               *)
CheckoutKeepsBranch ==
  /\ Calling("checkout")
  /\ merging = None \/ resolution # "none"
  /\ head' = "merge" /\ merging' = None /\ resolution' = "none"
  /\ Return
  /\ UNCHANGED <<remote, branch, edited, bumps, submodule, run, said>>

MoveWithoutCheckout ==
  /\ Calling("checkout")
  /\ branch' = [branch EXCEPT !["merge"] =
                  [base |-> tracking["current"], merged |-> None, own |-> FALSE]]
  /\ Return
  /\ UNCHANGED <<remote, worktree, run, said>>

(* git checkout -B moves the merge branch, whatever is on it, and forgets  *)
(* a merge; it refuses while there are conflicts.                          *)
checkout ==
  /\ Calling("checkout")
  /\ merging = None \/ resolution # "none"
  /\ branch' = [branch EXCEPT !["merge"] =
                  [base |-> tracking["current"], merged |-> None, own |-> FALSE]]
  /\ head' = "merge" /\ merging' = None /\ resolution' = "none"
  /\ Return
  /\ UNCHANGED <<remote, edited, bumps, submodule, run, said>>

update_submodules ==
  /\ Calling("update_submodules")
  /\ submodule' = Recorded(branch[head])
  /\ Return
  /\ UNCHANGED <<remote, branch, head, merging, resolution, edited, bumps, run, said>>

(* Of nothing new, of what merges cleanly, or with conflicts. *)
merge ==
  /\ Calling("merge")
  /\ \/ /\ branch' = [branch EXCEPT ![head].merged = tracking["previous"]]
        /\ Return /\ UNCHANGED worktree
     \/ /\ tracking["previous"] # None
        /\ merging' = tracking["previous"] /\ resolution' = "none"
        /\ todo' = <<>>
        /\ UNCHANGED <<branch, head, edited, bumps, submodule>>
  /\ UNCHANGED <<remote, run, said>>

(* Without a merge in progress it only says so. *)
continue_merge ==
  /\ Calling("continue_merge")
  /\ IF merge_in_progress
       THEN /\ resolution # "none"
            /\ branch' = [branch EXCEPT ![head].merged = merging, ![head].own = TRUE]
            /\ merging' = None /\ resolution' = "none"
            /\ continued' = TRUE
       ELSE UNCHANGED <<branch, merging, resolution, continued>>
  /\ Return
  /\ UNCHANGED <<remote, head, edited, bumps, submodule, cont, said>>

(* git diff compares the checkout, submodule and all, with the remote's branch. *)
show_diff ==
  /\ Calling("show_diff")
  /\ shown' = [commit |-> branch[head], submodule |-> submodule]
  /\ Return
  /\ UNCHANGED <<remote, branch, worktree, run, proposal>>

(* gh refuses a branch without commits. *)
create_pr ==
  /\ Calling("create_pr")
  /\ branch[head].merged # None \/ branch[head].own
  /\ proposal' = <<[head |-> head, commit |-> branch[head], cont |-> cont, continued |-> continued]>>
  /\ Return
  /\ UNCHANGED <<remote, branch, worktree, run, shown>>

Next ==
  \/ Push \/ Resolve \/ AbortMerge \/ SwitchBranch \/ EditFiles \/ UpdateByHand
  \/ main \/ Fail \/ fetch \/ checkout \/ update_submodules \/ merge \/ continue_merge
  \/ show_diff \/ create_pr

Spec == Init /\ [][Next]_vars
----------------------------------------------------------------------------
(* A merge is in progress only on the merge branch, of a version that was  *)
(* fetched; nothing is based on what the remote does not have.             *)
TypeOK ==
  /\ upstream \in [Release -> Version] /\ tracking \in [Release -> Version]
  /\ \A r \in Release : tracking[r] <= upstream[r]
  /\ branch \in [{"merge", "other"} -> Commit] /\ head \in {"merge", "other"}
  /\ \A b \in {"merge", "other"} : /\ branch[b].base <= tracking["current"]
                                   /\ branch[b].merged <= tracking["previous"]
  /\ merging \in Version /\ resolution \in {"none", "staged", "ours"}
  /\ merging # None => head = "merge" /\ branch["merge"].merged = None
  /\ edited \in BOOLEAN /\ bumps \in BOOLEAN /\ submodule \in BOOLEAN
  /\ cont \in BOOLEAN /\ continued \in BOOLEAN

(* A pull request has the merge, on the branch made for it, whether it was *)
(* clean or went through conflicts, failures and a second run; one of      *)
(* something else comes only from --continue without a merge to continue.  *)
ProposalHasTheMerge ==
  proposal # <<>> =>
    LET p == proposal[1] IN
    ~p.cont \/ p.continued =>
      p.head = "merge" /\ p.commit.merged # None /\ (p.continued <=> p.commit.own)

(* No command of the script throws away a merge that is not committed, be  *)
(* it one that the operator resolved without leaving any difference.       *)
MergeNotDiscarded ==
  [][Running /\ merging # None /\ merging' = None => branch'[head].merged = merging]_vars

(* "Proposed changes": the diff shown is that of the pull request. *)
DiffIsTheProposal ==
  Calling("create_pr") =>
    shown.commit = branch[head] /\ shown.submodule = Recorded(branch[head])
============================================================================

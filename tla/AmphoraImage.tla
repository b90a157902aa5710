---------------------------- MODULE AmphoraImage ----------------------------
(***************************************************************************)
(* etc/kayobe/ansible/maintenance/octavia-amphora-image-register.yml: give *)
(* the image that Octavia boots amphorae from a new version.  The file is  *)
(* downloaded, unless it is built by hand; an image of its checksum and of *)
(* the right name is what the run wants, else the old image is renamed and *)
(* the file uploaded.  A run fails or is killed anywhere and is run again; *)
(* between runs versions are published and configured, and operators       *)
(* delete the newest image to roll back.                                   *)
(***************************************************************************)
EXTENDS Naturals, Sequences, SequencesExt

CONSTANTS
  MaxVersion,  \* bound: versions published
  MaxImage     \* bound: images in Glance

(* Of the constants; Playbooks asserts it.                               *)
AmphoraAssumption == MaxVersion \in Nat \ {0} /\ MaxImage \in Nat \ {0}

(* Glance's images of the tag amphora, oldest first.  An image is queued   *)
(* until its upload ends; only then does it have a version, its checksum.  *)
Image == [version : 0..MaxVersion, named : BOOLEAN]
Queued == 0

VARIABLES
  published,   \* versions in Ark, 1 to this
  configured,  \* stackhpc_amphora_image_version
  file,        \* version of /tmp/amphora-x64-haproxy.qcow2, 0 if absent
  written,     \* versions that were published when the file was written
  images,
  stage,       \* the task at hand
  settled      \* history: the last run ended well, and nothing was deleted
               \* since it began

vars == <<published, configured, file, written, images, stage, settled>>

Named == {n \in DOMAIN images : images[n].named}
Active == {n \in DOMAIN images : images[n].version # Queued}

(* Octavia takes the newest active image with the tag.                     *)
Chosen == images[CHOOSE n \in Active : \A m \in Active : m <= n].version

Init ==
  /\ published = 1 /\ configured = 1
  /\ file = 0 /\ written = 0
  /\ images = <<>> /\ stage = "idle" /\ settled = FALSE
----------------------------------------------------------------------------
Publish ==
  /\ stage = "idle" /\ published < MaxVersion
  /\ published' = published + 1
  /\ UNCHANGED <<configured, file, written, images, stage, settled>>

Configure ==
  /\ stage = "idle"
  /\ configured' \in 1..published
  /\ UNCHANGED <<published, file, written, images, stage, settled>>

(* "To rollback an image update, simply delete the newest image."          *)
Rollback ==
  /\ \E n \in Active : (\A m \in Active : m <= n) /\ images' = RemoveAt(images, n)
  /\ settled' = FALSE
  /\ UNCHANGED <<published, configured, file, written, stage>>

(* download_amphora_from_ark, or a file that is there.                     *)
Begin ==
  /\ stage = "idle"
  /\ stage' \in {"download", "stat"}
  /\ settled' = TRUE
  /\ UNCHANGED <<published, configured, file, written, images>>

(* The run ends without success; an upload that is killed leaves its image *)
(* behind, one that fails does not.                                        *)
Fail ==
  /\ stage # "idle"
  /\ stage' = "idle" /\ settled' = FALSE
  /\ images' \in {images} \cup (IF stage = "upload" THEN {Front(images)} ELSE {})
  /\ UNCHANGED <<published, configured, file, written>>

Goto(from, to) ==
  /\ stage = from /\ stage' = to
  /\ UNCHANGED <<published, configured, settled>>

(* get_url asks for what was modified since the file was written; without  *)
(* an answer the file stays.                                               *)
Download ==
  /\ Goto("download", "stat")
  /\ IF file # 0 /\ configured <= written
       THEN UNCHANGED <<file, written>>
       ELSE file' = configured /\ written' = published
  /\ UNCHANGED images

(* Fault: an image of the name is enough. *)
NameRegistered == Named # {}

IsRegistered == \E n \in Named : images[n].version = file

(* The checksum, the query and the condition of the block that follows.    *)
Query ==
  /\ file # 0
  /\ Goto("stat", IF IsRegistered THEN "idle" ELSE IF Named # {} THEN "rename" ELSE "create")
  /\ UNCHANGED <<file, written, images>>

(* Fault: the old image keeps its name. *)
KeepName == Goto("rename", "create") /\ UNCHANGED <<file, written, images>>

(* The image is looked up by its name.                                     *)
Rename ==
  /\ Goto("rename", "create")
  /\ \E n \in Named : images' = [images EXCEPT ![n].named = FALSE]
  /\ UNCHANGED <<file, written>>

Create ==
  /\ Goto("create", "upload")
  /\ Len(images) < MaxImage
  /\ images' = Append(images, [version |-> Queued, named |-> TRUE])
  /\ UNCHANGED <<file, written>>

Upload ==
  /\ Goto("upload", "idle")
  /\ images' = [images EXCEPT ![Len(images)].version = file]
  /\ UNCHANGED <<file, written>>

Next == Publish \/ Configure \/ Rollback \/ Begin \/ Fail \/ Download \/ Query \/ Rename \/ Create \/ Upload

Spec == Init /\ [][Next]_vars
----------------------------------------------------------------------------
(* Types, and that no two images ever have the name, which the query of a  *)
(* run and the client's look-up by name rely on.                           *)
TypeOK ==
  /\ configured \in 1..published /\ published \in 1..MaxVersion
  /\ file \in 0..published /\ written \in file..published
  /\ images \in Seq(Image) /\ Len(images) <= MaxImage
  /\ \A m, n \in Named : m = n
  /\ stage = "upload" => Len(images) \in Named

(* After a run that ended well Octavia boots amphorae from the version in  *)
(* the file, whatever earlier runs left half done: an image of that        *)
(* version under the name is always the newest that is active.             *)
ChosenIsFile == settled /\ stage = "idle" => Active # {} /\ Chosen = file
============================================================================

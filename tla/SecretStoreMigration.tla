------------------------ MODULE SecretStoreMigration ------------------------
(***************************************************************************)
(* etc/kayobe/ansible/secret-store/vault-bao-migration-*.yml: move the     *)
(* seed's and the overcloud's secret store from Vault to OpenBao, then the *)
(* configuration with the unseal keys and certificates.  The playbooks run *)
(* together or one by one, may fail or be interrupted at any task, and are *)
(* run again on what is left.                                              *)
(***************************************************************************)
EXTENDS Naturals, Sequences

Server == {"seed", "overcloud"}

(* Files of vault/ and, by the same names, of openbao/, where the keys get *)
(* a second name: seed-vault-keys.json, seed-openbao-keys.json and so on.  *)
Key(s) == <<s, "vault">>
NewKey(s) == <<s, "openbao">>
Pki == <<"OS-TLS", "pem">>
VaultFile == {Key(s) : s \in Server} \cup {Pki}
File == VaultFile \cup {NewKey(s) : s \in Server}

VARIABLES
  store,       \* stackhpc_ca_secret_store
  migrated,    \* servers that run OpenBao
  vault_dir,   \* vault/ exists
  vault,       \* files in it
  openbao,     \* files in openbao/: absent, partly copied or whole
  ca,          \* certificates of OpenStack: vault.crt, openbao.crt
  plays,       \* playbooks that the command has still to run
  step,        \* the task of the first of them
  had, had_ca, \* the files and certificates there were before
  early,       \* history: change-config ran on its own before its time
  open         \* history: change-config has begun to remove, and not ended

config == <<store, vault_dir, vault, openbao, ca>>
history == <<had, had_ca, early, open>>
vars == <<config, migrated, plays, step, history>>

Init ==
  /\ store = "vault" /\ migrated = {}
  /\ had \in {f \in SUBSET VaultFile : Pki \in f}
  /\ vault_dir = TRUE /\ vault = had
  /\ openbao = [f \in File |-> "absent"]
  /\ had_ca \in {{}, {"vault"}} /\ ca = had_ca
  /\ plays = <<>> /\ step = "idle"
  /\ early = FALSE /\ open = FALSE
----------------------------------------------------------------------------
FirstStep(p) == IF p \in Server THEN "migrate" ELSE "stat_vault"

Begin ==
  /\ plays = <<>>
  /\ plays' \in {<<"seed">>, <<"overcloud">>, <<"config">>, <<"seed", "overcloud", "config">>}
  /\ step' = FirstStep(Head(plays'))
  /\ early' = (early \/ (plays' = <<"config">> /\ migrated # Server))
  /\ UNCHANGED <<config, migrated, had, had_ca, open>>

NextPlay ==
  /\ plays' = Tail(plays)
  /\ step' = IF plays' = <<>> THEN "idle" ELSE FirstStep(Head(plays'))

(* Fault: a play that fails does not end the command. *)
StopPlay ==
  /\ plays # <<>>
  /\ NextPlay
  /\ UNCHANGED <<config, migrated, history>>

(* The command fails or is interrupted: so do all of its playbooks, for    *)
(* any error is fatal.                                                     *)
Stop ==
  /\ plays # <<>>
  /\ plays' = <<>> /\ step' = "idle"
  /\ UNCHANGED <<config, migrated, history>>

Goto(from, to) == step = from /\ step' = to /\ UNCHANGED <<migrated, plays, had, had_ca, early>>

(* Fail if the store is OpenBao already; the migration reads the keys in   *)
(* the directory of the store.                                             *)
MigrateServer(s) ==
  /\ step = "migrate" /\ Head(plays) = s
  /\ store = "vault" /\ Key(s) \in vault
  /\ migrated' = migrated \cup {s}
  /\ NextPlay
  /\ UNCHANGED <<config, history>>
----------------------------------------------------------------------------
(* vault-bao-migration-change-config.yml, task by task.                    *)
StatVault ==
  /\ Goto("stat_vault", "copy") /\ vault_dir
  /\ UNCHANGED <<config, open>>

(* Fault: a file that is there is taken for a copy. *)
IsThere(f) == openbao[f] # "absent"

(* A file that differs is copied again.                                    *)
IsCopied(f) == openbao[f] = "whole"

CopyFile(f) ==
  /\ Goto("copy", "copy") /\ f \in vault /\ ~IsCopied(f)
  /\ openbao' = [openbao EXCEPT ![f] = IF @ = "absent" THEN "part" ELSE "whole"]
  /\ UNCHANGED <<store, vault_dir, vault, ca, open>>

AllCopied ==
  /\ Goto("copy", "name_keys") /\ \A f \in vault : IsCopied(f)
  /\ UNCHANGED <<config, open>>

NameKey(s) ==
  /\ Goto("name_keys", "name_keys")
  /\ openbao[Key(s)] # "absent"
  /\ openbao' = [openbao EXCEPT ![NewKey(s)] = openbao[Key(s)]]
  /\ UNCHANGED <<store, vault_dir, vault, ca, open>>

AllNamed ==
  /\ Goto("name_keys", "remove_vault")
  /\ \A s \in Server : openbao[Key(s)] # "absent" => openbao[NewKey(s)] # "absent"
  /\ UNCHANGED <<config, open>>

(* The directory is removed file by file.                                  *)
RemoveFile(f) ==
  /\ Goto("remove_vault", "remove_vault") /\ f \in vault
  /\ vault' = vault \ {f} /\ open' = TRUE
  /\ UNCHANGED <<store, vault_dir, openbao, ca>>

RemoveVault ==
  /\ Goto("remove_vault", "remove_keys") /\ vault = {}
  /\ vault_dir' = FALSE /\ open' = TRUE
  /\ UNCHANGED <<store, vault, openbao, ca>>

RemoveKey(s) ==
  /\ Goto("remove_keys", "remove_keys") /\ openbao[Key(s)] # "absent"
  /\ openbao' = [openbao EXCEPT ![Key(s)] = "absent"]
  /\ UNCHANGED <<store, vault_dir, vault, ca, open>>

KeysRemoved ==
  /\ Goto("remove_keys", "copy_ca") /\ \A s \in Server : openbao[Key(s)] = "absent"
  /\ UNCHANGED <<config, open>>

CopyCa ==
  /\ Goto("copy_ca", IF "vault" \in ca THEN "remove_ca" ELSE "set_store")
  /\ ca' = IF "vault" \in ca THEN ca \cup {"openbao"} ELSE ca
  /\ UNCHANGED <<store, vault_dir, vault, openbao, open>>

RemoveCa ==
  /\ Goto("remove_ca", "set_store")
  /\ ca' = ca \ {"vault"}
  /\ UNCHANGED <<store, vault_dir, vault, openbao, open>>

SetStore ==
  /\ step = "set_store"
  /\ store' = "openbao" /\ open' = FALSE
  /\ plays' = <<>> /\ step' = "idle"
  /\ UNCHANGED <<migrated, vault_dir, vault, openbao, ca, had, had_ca, early>>

Next ==
  \/ Begin \/ Stop \/ StatVault \/ AllCopied \/ AllNamed \/ RemoveVault \/ KeysRemoved
  \/ CopyCa \/ RemoveCa \/ SetStore
  \/ \E s \in Server : MigrateServer(s) \/ NameKey(s) \/ RemoveKey(s)
  \/ \E f \in VaultFile : CopyFile(f) \/ RemoveFile(f)

Spec == Init /\ [][Next]_vars
----------------------------------------------------------------------------
(* Types, and what a removal under way says of the directories.            *)
TypeOK ==
  /\ store \in {"vault", "openbao"} /\ migrated \subseteq Server
  /\ vault \subseteq had /\ ~vault_dir => vault = {}
  /\ openbao \in [File -> {"absent", "part", "whole"}]
  /\ ca \subseteq {"vault", "openbao"} /\ (ca = {}) = (had_ca = {})
  /\ ~open => vault = IF store = "vault" THEN had ELSE {}
  /\ step = "idle" <=> plays = <<>>
  /\ early \in BOOLEAN /\ open \in BOOLEAN

(* Keys, certificates and the CA that there were are still there, whole    *)
(* and under one of their names, wherever the migration was cut short and  *)
(* however often it was run.                                               *)
MaterialNeverLost ==
  /\ \A f \in had : f \in vault \/ openbao[f] = "whole"
                      \/ \E s \in Server : f = Key(s) /\ openbao[NewKey(s)] = "whole"
  /\ had_ca # {} => ca # {}

(* Outside of a removal that was cut short, the files are where the        *)
(* playbooks look for those of the configured store; and the configuration *)
(* says OpenBao only if both servers run it, unless change-config was run  *)
(* by itself too early.                                                    *)
ConfigFits ==
  /\ ~open => /\ \A s \in Server : Key(s) \in had =>
                   IF store = "vault" THEN Key(s) \in vault ELSE openbao[NewKey(s)] = "whole"
              /\ had_ca # {} => store \in ca
  /\ store = "openbao" => migrated = Server \/ early
============================================================================

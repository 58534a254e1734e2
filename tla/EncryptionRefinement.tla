------------------------ MODULE EncryptionRefinement ------------------------
(***************************************************************************)
(* With one worker, disciplined clients and no crash, EncryptionVfs        *)
(* implements Vault.  settled is the backing directory as it was when no   *)
(* handler was under way.                                                  *)
(***************************************************************************)
EXTENDS EncryptionVfs

CONSTANT NoLock

ASSUME NoLockAssumption ==
    NoLock \notin Creds

VARIABLE settled

Quiet == \A t \in Threads : At(t, "idle")

RefinementInit == Init /\ settled = store

RefinementNext ==
    /\ Next
    /\ settled' = IF Quiet' THEN store' ELSE settled

RefinementSpec == RefinementInit /\ [][RefinementNext]_<<vars, settled>>

\* What a directory says of a file and its versions
Numbers(dir, f) == {n \in 0..MaxVersion : Plain(f, n) \in DOMAIN dir}
LocksOf(dir, x) == {kind \in Kinds : Marker(x, kind) \in DOMAIN dir}
KindOf(dir, x) == CHOOSE kind \in Kinds : kind \in LocksOf(dir, x)
Locked(dir, x) == dir[Marker(x, KindOf(dir, x))]

\* What is behind the lock of x, if it has one
Behind(dir, x) ==
    IF LocksOf(dir, x) = {} THEN dir[x].data ELSE Unseal(Locked(dir, x)).data

LockOf(dir, f) ==
    LET x == Plain(f, 0) IN
    IF LocksOf(dir, x) = {} THEN NoLock
    ELSE <<KindOf(dir, x), Head(Locked(dir, x).seals)>>

ContentOf(dir, f) == [n \in Numbers(dir, f) |-> Behind(dir, Plain(f, n))]
ShownOf(dir, f) == [n \in Numbers(dir, f) |-> dir[Plain(f, n)].data]
IsLent(dir, f) == Tmp(Plain(f, 0)) \in DOMAIN dir

Offer == LET busy == {t \in Threads : cred[t] # NoCred} IN
         IF busy = {} THEN <<NoCred, NoCred>>
         ELSE LET t == CHOOSE u \in busy : TRUE IN <<req[t].name[1], cred[t]>>

Secret == INSTANCE Vault WITH
    Open <- NoLock,
    content <- [f \in Files |-> ContentOf(settled, f)],
    lock <- [f \in Files |-> LockOf(settled, f)],
    lent <- {f \in Files : IsLent(settled, f)},
    shown <- [f \in Files |-> ShownOf(settled, f)],
    offer <- Offer

\* The handlers of the decorator, run one at a time for disciplined clients,
\* keep what Vault promises: no lock, unlock, open or release loses a content,
\* the versions are locked and unlocked with their file, and only the key a file
\* was locked with opens it (encrypt_file, decrypt_file, open, release).
ImplementsVault == Secret!VaultSpec

\* A file is unsealed for its readers only while it has readers: the tmp marker
\* never outlives the last release (open, release).
TempOnlyWhileOpen ==
    Quiet => \A x \in Targets : Exists(Tmp(x)) => opened[x] > 0
=============================================================================

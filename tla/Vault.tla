-------------------------------- MODULE Vault --------------------------------
(***************************************************************************)
(* What encryption promises.  A file has a content and numbered versions   *)
(* (the content is number 0).  A lock hides them all behind a key without  *)
(* losing any, only that key opens it, and it opens all of them.  A file   *)
(* locked with the default key is open while a client has it open.         *)
(***************************************************************************)
EXTENDS Naturals, Functions

CONSTANTS Files, Data, MaxVersion, Nothing, Placeholder, Open

VARIABLES
    content,   \* for each file, a function from the numbers it has to data
    lock,      \* what each file is locked with, or Open
    lent,      \* the files that are open because a client has them open
    shown,     \* what a client reads: content, or placeholders
    offer      \* input: the file and the credential a handler works with

vaultVars == <<content, lock, lent, shown, offer>>

\* What a client reads follows from the content and the lock.
View(c, l) == [f \in Files |->
                 [n \in DOMAIN c[f] |-> IF l[f] = Open THEN c[f][n] ELSE Placeholder]]

VaultInit ==
    /\ content = [f \in Files |-> <<>>]
    /\ lock = [f \in Files |-> Open]
    /\ lent = {}
    /\ shown = View(content, lock)

Has(f, n) == n \in DOMAIN content[f]
Free(f) == lock[f] = Open /\ f \notin lent

Set(f, n, d) == [m \in DOMAIN content[f] \union {n} |-> IF m = n THEN d ELSE content[f][m]]
Drop(f, N) == Restrict(content[f], DOMAIN content[f] \ N)
Become(f, c) == content' = [content EXCEPT ![f] = c] /\ UNCHANGED <<lock, lent>>

\* A write stores its result as the content and under the next number.
WriteFile(f, d) ==
    /\ lock[f] = Open
    /\ Has(f, 0)
    /\ \E n \in 1..MaxVersion :
         /\ \A m \in DOMAIN content[f] : m < n
         /\ n = 1 \/ Has(f, n - 1)
         /\ Become(f, [m \in DOMAIN content[f] \union {n} |->
                         IF m \in {0, n} THEN d ELSE content[f][m]])

\* Emptied, or overwritten by a new key: no version is stored.
ReplaceFile(f) == /\ lock[f] = Open
                  /\ Has(f, 0) \/ Free(f)
                  /\ \E d \in Data \union {Nothing} : Become(f, Set(f, 0, d))

RestoreFile(f, n) == /\ lock[f] = Open
                     /\ Has(f, n)
                     /\ Become(f, Set(f, 0, content[f][n]))

ForgetVersion(f, n) == lock[f] = Open /\ Has(f, n) /\ n # 0 /\ Become(f, Drop(f, {n}))

RemoveFile(f) == Free(f) /\ Has(f, 0) /\ Become(f, Drop(f, {0}))

ForgetFile(f) == Free(f) /\ Has(f, 0) /\ Become(f, <<>>)

MoveFile(f, g) ==
    /\ f # g /\ Free(f) /\ Free(g) /\ Has(f, 0)
    /\ content' = [content EXCEPT ![f] = Drop(f, {0}),
                                  ![g] = Set(g, 0, content[f][0])]
    /\ UNCHANGED <<lock, lent>>

LockFile(f) ==
    /\ lock[f] = Open
    /\ Has(f, 0)
    /\ offer[1] = f
    /\ lock' = [lock EXCEPT ![f] = offer[2]]
    /\ UNCHANGED <<content, lent>>

UnlockFile(f) ==
    /\ offer = <<f, lock[f]>>
    /\ lock' = [lock EXCEPT ![f] = Open]
    /\ UNCHANGED <<content, lent>>

\* The first client opens a file that is locked with the default key ...
LendFile(f) ==
    /\ offer = <<f, lock[f]>>
    /\ lock' = [lock EXCEPT ![f] = Open]
    /\ lent' = lent \union {f}
    /\ UNCHANGED content

\* ... and it is locked, with what is the default key then, when one closes it,
\* unless somebody has locked it in the meantime.
TakeBackFile(f) ==
    /\ f \in lent
    /\ lent' = lent \ {f}
    /\ lock' = [lock EXCEPT ![f] = IF @ = Open THEN offer[2] ELSE @]
    /\ UNCHANGED content

FileNext(f) ==
    \/ \E d \in Data : WriteFile(f, d)
    \/ ReplaceFile(f)
    \/ \E n \in 1..MaxVersion : RestoreFile(f, n) \/ ForgetVersion(f, n)
    \/ RemoveFile(f)
    \/ ForgetFile(f)
    \/ \E g \in Files : MoveFile(f, g)
    \/ LockFile(f)
    \/ UnlockFile(f)
    \/ LendFile(f)
    \/ TakeBackFile(f)

VaultNext ==
    \/ (\E f \in Files : FileNext(f)) /\ shown' = View(content', lock')
    \/ UNCHANGED <<content, lock, lent, shown>>

VaultSpec == VaultInit /\ [][VaultNext]_vaultVars
=============================================================================

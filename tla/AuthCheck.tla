------------------------------ MODULE AuthCheck ------------------------------
(***************************************************************************)
(* The evaluation of an authorization expression by auth.c: a stack of     *)
(* fixed depth holds the operators in evaluation, and each permission is   *)
(* asked to the framework, that answers later.                             *)
(***************************************************************************)
EXTENDS Integers, Sequences

CONSTANTS
    Auths,          \* the expressions, with all their parts
    Perms,          \* the permissions
    Height,         \* the height of each expression
    StackDepth      \* CKAUTH_STACK_DEPTH

Operators == {"Or", "And", "Not"}

\* An expression is a finite tree, the parts of which are expressions.
ASSUME AuthAssumption ==
    /\ StackDepth \in Nat \ {0}
    /\ Height \in [Auths -> Nat]
    /\ \A a \in Auths :
          /\ a.type \in Operators => a.first \in Auths /\ Height[a.first] < Height[a]
          /\ a.type \in {"Or", "And"} => a.next \in Auths /\ Height[a.next] < Height[a]
          /\ a.type = "Permission" => a.text \in Perms

VARIABLES
    auth,       \* the expression to check
    grants,     \* what the framework answers: 1, 0 or an error
    authstack,  \* the stack
    todo,       \* the call in progress: push, pop, ask or end
    current,    \* the expression of a push
    status      \* the status of a pop, and the one given to the callback

authVars == <<auth, grants, authstack, todo, current, status>>

E2BIG == -7

\* The expression and the answers.
AuthInput == auth \in Auths /\ grants \in [Perms -> {1, 0, -1}]

\* auth_check
AuthStart ==
    /\ authstack = <<>>
    /\ todo = "push"
    /\ current = auth
    /\ status = 0

AuthInit == AuthInput /\ AuthStart

\* cka_push: no room
CkaPushFull ==
    /\ todo = "push" /\ Len(authstack) >= StackDepth
    /\ todo' = "end"
    /\ status' = E2BIG
    /\ UNCHANGED <<auth, grants, authstack, current>>

\* cka_push of an operator goes on with its first operand; of a permission, asks it; Yes is
\* granted, the other kinds are not.
CkaPush ==
    /\ todo = "push" /\ Len(authstack) < StackDepth
    /\ authstack' = Append(authstack, current)
    /\ CASE current.type \in Operators ->
                current' = current.first /\ UNCHANGED <<todo, status>>
         [] current.type = "Permission" -> todo' = "ask" /\ UNCHANGED <<current, status>>
         [] OTHER -> /\ todo' = "pop"
                     /\ status' = IF current.type = "Yes" THEN 1 ELSE 0
                     /\ UNCHANGED current
    /\ UNCHANGED <<auth, grants>>

\* cka_perm_cb: the answer of the framework
CkaPermCb ==
    /\ todo = "ask"
    /\ todo' = "pop"
    /\ status' = grants[current.text]
    /\ UNCHANGED <<auth, grants, authstack, current>>

CkaPopMutant(top) ==
    IF (top.type = "Or" /\ status <= 0) \/ (top.type = "And" /\ status >= 0)
    THEN todo' = "push" /\ current' = top.next /\ UNCHANGED status
    ELSE /\ status' = IF top.type = "Not" THEN (IF status <= 0 THEN 1 ELSE 0) ELSE status
         /\ UNCHANGED <<todo, current>>

\* cka_pop: the second operand of Or and And if the first does not decide
CkaPop(top) ==
    IF (top.type = "Or" /\ status <= 0) \/ (top.type = "And" /\ status > 0)
    THEN todo' = "push" /\ current' = top.next /\ UNCHANGED status
    ELSE /\ status' = IF top.type = "Not" THEN (IF status <= 0 THEN 1 ELSE 0) ELSE status
         /\ UNCHANGED <<todo, current>>

CkaPopStack ==
    /\ todo = "pop" /\ authstack # <<>>
    /\ authstack' = SubSeq(authstack, 1, Len(authstack) - 1)
    /\ CkaPop(authstack[Len(authstack)])
    /\ UNCHANGED <<auth, grants>>

\* cka_pop of an empty stack: cka_end
CkaEnd ==
    /\ todo = "pop" /\ authstack = <<>>
    /\ todo' = "end"
    /\ UNCHANGED <<auth, grants, authstack, current, status>>

AuthNext == CkaPushFull \/ CkaPush \/ CkaPermCb \/ CkaPopStack \/ CkaEnd

AuthSpec == AuthInit /\ [][AuthNext]_authVars

----------------------------------------------------------------------------
(* Properties. *)

\* The truth of an expression for the answers of the framework; an error is a refusal.
TruthFor(answers) ==
    LET of[a \in Auths] ==
          CASE a.type = "Or" -> of[a.first] \/ of[a.next]
            [] a.type = "And" -> of[a.first] /\ of[a.next]
            [] a.type = "Not" -> ~of[a.first]
            [] a.type = "Permission" -> answers[a.text] > 0
            [] OTHER -> a.type = "Yes"
    IN  of
Truth == TruthFor(grants)

\* The room an expression needs: the second operand takes the place of its operator.
Room ==
    LET of[a \in Auths] ==
          CASE a.type = "Not" -> 1 + of[a.first]
            [] a.type \in {"Or", "And"} ->
                  IF 1 + of[a.first] > of[a.next] THEN 1 + of[a.first] ELSE of[a.next]
            [] OTHER -> 1
    IN  of

\* The callback is told the truth of the expression, whatever the answers, unless the
\* expression needs more room than the stack has: it is then an error, thus a refusal
\* (cka_push and cka_pop).
AuthDecides ==
    todo = "end" =>
        IF status = E2BIG THEN Room[auth] > StackDepth ELSE (status > 0) = Truth[auth]
=============================================================================

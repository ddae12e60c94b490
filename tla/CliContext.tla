----------------------------- MODULE CliContext -----------------------------
(***************************************************************************)
(* What one CLI process has built and cached (apps/cli,                    *)
(* composition/context.py): the connection, opened by the first accessor   *)
(* that needs it, the repositories on it, and the services on those.       *)
(* A repository is known by the engine it reaches.                         *)
(***************************************************************************)
EXTENDS Connection, FiniteSets

CONSTANTS Injected,  \* kinds of repository that the caller supplies
          Supplied   \* what stands for the engine of such a repository

VARIABLES
    connection, \* the engine of the cached connection, or None
    repo,       \* by kind: what the cached repository reaches, or None
    service     \* by kind: what the cached service reaches, {} if there is none

contextVars == <<connection, repo, service>>

Kinds == {"account", "journal", "posting", "trial balance"}

ASSUME ContextAssumption == /\ Injected \subseteq Kinds
                            /\ Supplied \notin EngineIds \cup {None}

-----------------------------------------------------------------------------
(* How the services are wired *)

\* The repositories a service is constructed with.  AccountService gets the
\* posting repository too, in its check for postings.
_make_has_postings_check == {"posting"}
OwnRepos == [s \in Kinds |-> IF s = "account" THEN {s} \cup _make_has_postings_check ELSE {s}]

\* A service and the services below it.
Parts == [s \in Kinds |->
            CASE s = "posting" -> {"posting", "journal", "account"}
              [] s = "journal" -> {"journal", "account"}
              [] OTHER -> {s}]

\* The repositories that the accessors of a service await, in their order.
Order == [s \in Kinds |->
            CASE s = "account" -> <<"posting", "account">>
              [] s = "journal" -> <<"journal", "posting", "account">>
              [] s = "posting" -> <<"posting", "journal", "account">>
              [] OTHER -> <<s>>]

\* A cached service ends the descent: only what is above it is built.
ToBuild(s) == IF service[s] # {} THEN {} ELSE {p \in Parts[s] : service[p] = {}}
ReposOf(ps) == UNION {OwnRepos[p] : p \in ps}

\* The first repository that is not cached is where the accessors of a service
\* wait for connect(): only what the caller supplied is cached by then.
Awaits(s) == CHOOSE k \in Kinds \ Injected :
                \E i \in DOMAIN Order[s] : /\ Order[s][i] = k
                                           /\ \A j \in 1..(i - 1) : Order[s][j] \in Injected

\* The accessors entered by then do not look again for what may have been cached
\* meanwhile.
Entered(s) == {p \in Parts[s] : \A q \in Parts[s] :
                                   p \in Parts[q] \ {q} => Awaits(s) \notin OwnRepos[q]}
ToRebuild(s) == Entered(s) \cup {p \in Parts[s] : service[p] = {}}

-----------------------------------------------------------------------------
(* The accessors *)

\* Constructing the context does no I/O.
ContextInit ==
    /\ connection = None
    /\ repo = [k \in Kinds |-> IF k \in Injected THEN Supplied ELSE None]
    /\ service = [k \in Kinds |-> {}]

\* _get_connection has to connect for a repository that is not cached.
NeedsConnection(s) == connection = None /\ \E k \in ReposOf(ToBuild(s)) : repo[k] = None

\* The accessors of the services ps, without a wait, on engine e: the
\* repositories ks and those that are not cached are built on e, each service on
\* its repositories and on the service below it, new or cached.
get_repo(e, ps, ks) ==
    [k \in Kinds |-> IF k \in ks \/ (k \in ReposOf(ps) /\ repo[k] = None) THEN e ELSE repo[k]]
BuiltOn(p, ps) == {q \in Parts[p] : \A m \in Parts[p] \ {p, q} : q \in Parts[m] => m \in ps}
get_service(e, ps, ks) ==
    [p \in Kinds |->
        IF p \in ps
        THEN UNION {IF q \in ps THEN {get_repo(e, ps, ks)[k] : k \in OwnRepos[q]}
                    ELSE service[q] : q \in BuiltOn(p, ps)}
        ELSE service[p]]

\* get_*_service() without connecting.
Assemble(s) ==
    /\ ~NeedsConnection(s)
    /\ repo' = get_repo(connection, ToBuild(s), {})
    /\ service' = get_service(connection, ToBuild(s), {})
    /\ UNCHANGED connection

\* get_*_service() once connect() has returned e: the connection is cached
\* whatever is cached by then, and so are the repository that was waited for and
\* the services entered.
AssembleConnected(s, e) ==
    /\ connection' = e
    /\ repo' = get_repo(e, ToRebuild(s), {Awaits(s)})
    /\ service' = get_service(e, ToRebuild(s), {Awaits(s)})

-----------------------------------------------------------------------------
(* Closing *)

\* Faulty variant: the services stay cached.
DropRepositories ==
    /\ connection' = None
    /\ repo' = [k \in Kinds |-> IF k \in Injected THEN repo[k] ELSE None]
    /\ UNCHANGED service

\* The end of aclose(): what the context built is dropped in any case, what the
\* caller supplied stays.
Drop ==
    /\ connection' = None
    /\ repo' = [k \in Kinds |-> IF k \in Injected THEN repo[k] ELSE None]
    /\ service' = [k \in Kinds |-> {}]

\* aclose() waits for the connection to be disposed, if there is one.
BeginClose == connection # None /\ Disconnect(connection) /\ UNCHANGED contextVars
=============================================================================

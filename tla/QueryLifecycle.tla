--------------------------- MODULE QueryLifecycle ---------------------------
(***************************************************************************)
(* query-lifecycle.js: which billing scope a price query belongs to, which *)
(* result closes a scope, and what that makes of queries and components.   *)
(* A scope stands for [component_key, billing_key, scenario_key]; all      *)
(* queries of the batch are of one provider.                               *)
(***************************************************************************)
EXTENDS Naturals, Sequences, FiniteSets

CONSTANTS
  Ids,         \* query ids
  Payloads,    \* what officialAttemptFingerprint keeps of a query
  Scopes,      \* billing scopes the agents may plan
  Components,  \* top-level components
  OwnerOf,     \* the component of a scope
  NoScope

ASSUME ScopesAssumption ==
  /\ OwnerOf \in [Scopes -> Components]
  /\ NoScope \notin Scopes

\* priced: official items, each with a positive rate;  listed: items without;
\* failed, refused: query_failed, terminal (refused: a credentials error);
\* input: a correctable error of the local AWS route;  open: any other
\* unusable answer;  skipped: answered by getPrices itself without a request.
Answers == {"priced", "listed", "failed", "refused", "input", "open"}
Kinds   == Answers \union {"skipped", "none"}

NoContext == [purpose |-> "none", scope |-> NoScope, old |-> {}]
Contexts  == [purpose : {"none", "discovery", "pricing"},
              scope : Scopes \union {NoScope}, old : SUBSET Ids]

-----------------------------------------------------------------------------
(* Contexts: mergeQueryContexts.  asked are the ids with a query. *)

UpdateAllowed(id, old, new, asked) ==
  /\ id \in asked
  /\ \/ new.purpose = "pricing" /\ new.scope \in Scopes
     \/ new.purpose = "discovery" /\ new.scope = NoScope /\ new.old = {}
  /\ old.purpose = "pricing" =>
       new.purpose = "pricing" /\ new.scope = old.scope

\* The later update keeps the predecessors of the earlier ones.
Updated(context, update) ==
  [id \in Ids |->
     IF id \in DOMAIN update
     THEN [update[id] EXCEPT !.old = @ \union context[id].old]
     ELSE context[id]]

\* A predecessor is another query of the batch, of the same scope; one without
\* a context is adopted, by successors of one scope only.
Replaces(context, id, old) == old \in context[id].old
PredecessorsFit(context, asked) ==
  \A id, old \in Ids : Replaces(context, id, old) =>
    /\ old # id /\ old \in asked
    /\ context[old].purpose # "none" => context[old].scope = context[id].scope
    /\ \A other \in Ids : Replaces(context, other, old) =>
         context[other].scope = context[id].scope

Acyclic(context) ==
  \A ring \in SUBSET {id \in Ids : context[id].old # {}} \ {{}} :
    \E id \in ring : context[id].old \intersect ring = {}

Adopted(context) ==
  [id \in Ids |->
     IF context[id].purpose = "none" /\ \E new \in Ids : Replaces(context, new, id)
     THEN [purpose |-> "pricing", old |-> {},
           scope |-> context[CHOOSE new \in Ids : Replaces(context, new, id)].scope]
     ELSE context[id]]

ContextsFit(context, update, asked) ==
  /\ \A id \in DOMAIN update : UpdateAllowed(id, context[id], update[id], asked)
  /\ PredecessorsFit(Updated(context, update), asked)
  /\ Acyclic(Updated(context, update))

MergedContexts(context, update) == Adopted(Updated(context, update))

-----------------------------------------------------------------------------
(* Results *)

\* reusableQueryResult: a directory answer closes nothing that is to be billed.
Reusable(kind, scope) ==
  kind = "priced" \/ (kind = "listed" /\ scope = NoScope)

Terminal(kind) == kind \in {"failed", "refused", "skipped"}

\* A batch b: b.order lists the ids as they were asked first, with b.payload,
\* b.result and b.context; b.page are the scopes with saved page evidence.
Asked(b) == {b.order[i] : i \in DOMAIN b.order}
Position(b, id) == CHOOSE i \in DOMAIN b.order : b.order[i] = id
ScopeOf(b, id) == b.context[id].scope
Done(b, id) == Reusable(b.result[id], ScopeOf(b, id))
Attempts(b, s) == {id \in Asked(b) : ScopeOf(b, id) = s}

\* The last query of the scope that has a price.
Success(b, s) ==
  LET done == {id \in Attempts(b, s) : Done(b, id)}
  IN  {id \in done : \A other \in done : Position(b, other) <= Position(b, id)}

Superseded(b, id) ==
  /\ ~Done(b, id) /\ ScopeOf(b, id) # NoScope
  /\ \E new \in Success(b, ScopeOf(b, id)) :
       Position(b, new) > Position(b, id) \/ Replaces(b.context, new, id)

ByPage(b, id) == ~Done(b, id) /\ ScopeOf(b, id) \in b.page

Pending(b, id) ==
  /\ b.context[id].purpose # "discovery"
  /\ ~Superseded(b, id) /\ ~Done(b, id) /\ ~ByPage(b, id)

PendingIds(b) == {id \in Asked(b) : Pending(b, id)}

\* queryProgress.quote_terminal: nothing left to try.
OnlyFailuresLeft(b) ==
  /\ PendingIds(b) # {}
  /\ \A id \in PendingIds(b) : ScopeOf(b, id) # NoScope /\ Terminal(b.result[id])

-----------------------------------------------------------------------------
(* Components: componentProgress.  b.plan are the planned scopes. *)

ScopeState(b, s) ==
  LET attempts == Attempts(b, s)
      open     == {id \in attempts : Pending(b, id)}
      closing(id) == Done(b, id) \/ (ByPage(b, id) /\ ~Superseded(b, id))
  IN  CASE \E id \in attempts : closing(id) -> "completed"
        [] attempts # {} /\ \A id \in attempts :
             id \in open /\ Terminal(b.result[id]) -> "failed"
        [] OTHER -> "pending"

PlannedOf(b, component) == {s \in b.plan : OwnerOf[s] = component}

\* sealed are the components with a saved result.
ComponentState(b, component, sealed) ==
  LET states == {ScopeState(b, s) : s \in PlannedOf(b, component)}
  IN  CASE component \in sealed \/ states = {"completed"} -> "completed"
        [] component \notin sealed /\ "failed" \in states -> "failed"
        [] OTHER -> "pending"
=============================================================================

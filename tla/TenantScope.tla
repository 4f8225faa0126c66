----------------------------- MODULE TenantScope ------------------------------
(***************************************************************************)
(* The tenant in context and what it confines: tenancy/context.py, the     *)
(* default manager and the base model of tenancy/base.py, and the          *)
(* middleware that enters a center.                                        *)
(*                                                                         *)
(* A thread serves one request after the other.  Inside, blocks of         *)
(* tenant_context nest and are left by their end or by an exception that   *)
(* somebody further out catches.  Forms keep a queryset that was built     *)
(* when their module was imported, before there was a tenant.              *)
(***************************************************************************)
EXTENDS Naturals, Sequences

CONSTANTS
    Tenant,
    Thread,
    None,           \* no tenant in context
    MaxDepth,       \* bound: nested contexts
    MaxRows         \* bound: rows

TenantScopeAssumption ==
    /\ None \notin Tenant
    /\ {MaxDepth, MaxRows} \subseteq Nat

VARIABLES
    value,      \* the context variable of each thread
    tokens,     \* the values its resets will restore, innermost last
    field,      \* the queryset of a form's class, shared by all threads
    query,      \* a queryset each thread holds
    shown,      \* the rows it last read
    rows,       \* a table: its rows by id, with the row each one refers to
    blocks,     \* history: the tenants whose code each thread is in, innermost last
    built,      \* history: the tenant whose code built, or first had, the queryset
    unseen      \* history: rows saved with a reference that nobody had loaded

history == <<blocks, built, unseen>>

vars == <<value, tokens, field, query, shown, rows, history>>

-----------------------------------------------------------------------------

Id == 1 .. MaxRows

Here == Tenant \cup {None}

\* A queryset: deferred, or filtered by a tenant.
Deferred == [deferred |-> TRUE]

By(t) == [deferred |-> FALSE, tenant |-> t]

NoQuery == << >>

Row == [tenant : Tenant, ref : Id \cup {0}]

\* Modules are imported before the first request.
Init ==
    /\ value = [th \in Thread |-> None]
    /\ tokens = [th \in Thread |-> << >>]
    /\ field = Deferred
    /\ query = [th \in Thread |-> NoQuery]
    /\ shown = [th \in Thread |-> {}]
    /\ rows = << >>
    /\ blocks = [th \in Thread |-> << >>]
    /\ built = [th \in Thread |-> None]
    /\ unseen = {}

Inner(th) == blocks[th][Len(blocks[th])]

Outer(s, n) == SubSeq(s, 1, n)

-----------------------------------------------------------------------------
(* The context *)

\* set_tenant by the middleware, of the console too, and tenant_context.
Enter(th, t) ==
    /\ Len(tokens[th]) < MaxDepth
    /\ tokens' = [tokens EXCEPT ![th] = Append(@, value[th])]
    /\ value' = [value EXCEPT ![th] = t]
    /\ blocks' = [blocks EXCEPT ![th] = Append(@, t)]
    /\ UNCHANGED <<field, query, shown, rows, built, unseen>>

\* The value when all but n contexts have been left, each by its finally.
Restored(th, n) == [value EXCEPT ![th] = tokens[th][n + 1]]

\* The end of a block, or an exception that is caught where n blocks are open.
\* A request that ends takes its querysets with it.
Exit(th, n) ==
    /\ n < Len(tokens[th])
    /\ value' = Restored(th, n)
    /\ tokens' = [tokens EXCEPT ![th] = Outer(@, n)]
    /\ blocks' = [blocks EXCEPT ![th] = Outer(@, n)]
    /\ IF n = 0
         THEN /\ query' = [query EXCEPT ![th] = NoQuery]
              /\ shown' = [shown EXCEPT ![th] = {}]
              /\ built' = [built EXCEPT ![th] = None]
         ELSE UNCHANGED <<query, shown, built>>
    /\ UNCHANGED <<field, rows, unseen>>

-----------------------------------------------------------------------------
(* Reading *)

Working(th) == blocks[th] # << >>

\* TenantManager.get_queryset
Build(th) ==
    /\ Working(th)
    /\ query' = [query EXCEPT ![th] = IF value[th] = None THEN Deferred ELSE By(value[th])]
    /\ shown' = [shown EXCEPT ![th] = {}]
    /\ built' = [built EXCEPT ![th] = Inner(th)]
    /\ UNCHANGED <<value, tokens, field, rows, blocks, unseen>>

\* The form of a request copies the queryset of its class.
Form(th) ==
    /\ Working(th)
    /\ query' = [query EXCEPT ![th] = field]
    /\ shown' = [shown EXCEPT ![th] = {}]
    /\ built' = [built EXCEPT ![th] = None]
    /\ UNCHANGED <<value, tokens, field, rows, blocks, unseen>>

\* The queryset as it is consumed: _resolve_tenant filters it in place, or
\* refuses when there is no tenant.
Resolved(th) == IF query[th].deferred THEN By(value[th]) ELSE query[th]

\* Iteration, count, update, delete, a subquery: every use resolves first.
Use(th) ==
    /\ Working(th)
    /\ query[th] # NoQuery
    /\ Resolved(th).tenant # None
    /\ query' = [query EXCEPT ![th] = Resolved(th)]
    /\ shown' = [shown EXCEPT ![th] = {i \in DOMAIN rows : rows[i].tenant = Resolved(th).tenant}]
    /\ built' = [built EXCEPT ![th] = IF @ = None THEN Inner(th) ELSE @]
    /\ UNCHANGED <<value, tokens, field, rows, blocks, unseen>>

\* The rows a request may refer to: by all_tenants, or by a key alone.
Known == DOMAIN rows \cup {0}

-----------------------------------------------------------------------------
(* Writing *)

\* _stamp_tenant: the tenant of a new row, given one or not; None refuses.
Stamped(th, given) ==
    CASE given = None -> value[th]
      [] value[th] \in {None, given} -> given
      [] OTHER -> None

\* _check_foreign_keys looks at related objects that are in memory.
Reference(t, ref, loaded) == loaded /\ ref # 0 => rows[ref].tenant = t

Insert(th, t, ref, loaded) ==
    /\ Len(rows) < MaxRows
    /\ rows' = Append(rows, [tenant |-> t, ref |-> ref])
    /\ unseen' = IF loaded \/ ref = 0 THEN unseen ELSE unseen \cup {Len(rows) + 1}
    /\ UNCHANGED <<value, tokens, field, query, shown, blocks, built>>

\* TenantOwnedModel.save of a new instance.
Save(th, given, ref, loaded) ==
    LET t == Stamped(th, given)
    IN  /\ Working(th)
        /\ t # None
        /\ Reference(t, ref, loaded)
        /\ Insert(th, t, ref, loaded)

\* bulk_create stamps, and leaves the references unchecked.
BulkCreate(th, given, ref) ==
    /\ Working(th)
    /\ Stamped(th, given) # None
    /\ Insert(th, Stamped(th, given), ref, FALSE)

\* TenantOwnedModel.save of a row that is there: its tenant is given.
Update(th, i, ref, loaded) ==
    /\ Working(th)
    /\ Stamped(th, rows[i].tenant) # None
    /\ Reference(rows[i].tenant, ref, loaded)
    /\ rows' = [rows EXCEPT ![i].ref = ref]
    /\ unseen' = IF loaded \/ ref = 0 THEN unseen \ {i} ELSE unseen \cup {i}
    /\ UNCHANGED <<value, tokens, field, query, shown, blocks, built>>

-----------------------------------------------------------------------------

Next ==
    \/ \E th \in Thread, t \in Here : Enter(th, t)
    \/ \E th \in Thread, n \in 0 .. MaxDepth - 1 : Exit(th, n)
    \/ \E th \in Thread : Build(th) \/ Form(th) \/ Use(th)
    \/ \E th \in Thread, given \in Here, ref \in Known :
          \/ \E loaded \in BOOLEAN : Save(th, given, ref, loaded)
          \/ BulkCreate(th, given, ref)
    \/ \E th \in Thread, i \in DOMAIN rows, ref \in Known, loaded \in BOOLEAN : Update(th, i, ref, loaded)

Spec == Init /\ [][Next]_vars

-----------------------------------------------------------------------------
(* Properties *)

TypeOK ==
    /\ value \in [Thread -> Here]
    /\ \A th \in Thread : Len(tokens[th]) \in 0 .. MaxDepth
    /\ rows \in Seq(Row) /\ Len(rows) <= MaxRows
    /\ unseen \subseteq Id

\* "A leaked value means the next request served by that worker reads another
\* center's data": whatever blocks were left and how, the tenant in context
\* is that of the code that runs, and there is none between requests.
ContextIsLexical ==
    \A th \in Thread : value[th] = IF Working(th) THEN Inner(th) ELSE None

\* What a request has read is of the tenant whose code built the queryset, or
\* of the one whose code first used what was built without a tenant; a
\* form's choices are never those of whoever used the form before.
ReadsStayInside ==
    \A th \in Thread : \A i \in shown[th] : rows[i].tenant = built[th]

\* A row refers to a row of its own tenant, unless it was saved by the key
\* of a row that nobody had loaded.
ReferencesStayInside ==
    \A i \in DOMAIN rows : rows[i].ref # 0 /\ i \notin unseen => rows[rows[i].ref].tenant = rows[i].tenant

ScopeHolds == TypeOK /\ ContextIsLexical /\ ReadsStayInside /\ ReferencesStayInside
=============================================================================

--------------------------------- MODULE Tenants ---------------------------------
(***************************************************************************)
(* Which tenants the worker's passes visit.  A pass lists the first        *)
(* tenantLimit active tenants in the order of their ids and works through  *)
(* the list; what one of them throws ends the pass for those behind it.    *)
(* Kept is where the tenant stands that the modules extending this one     *)
(* describe.                                                               *)
(*                                                                         *)
(* Source: activeTenantIds of packages/crm/src/worker.ts and of            *)
(* packages/jacket/src/reconcile.ts.                                       *)
(***************************************************************************)
EXTENDS Naturals

CONSTANTS
    tenantLimit,  \* options.tenantLimit ?? 200
    MaxAhead      \* bound: tenants ahead of this one

VARIABLE standing  \* this tenant among those of the installation

Standing ==
    [active : BOOLEAN,      \* tenants.status = 'active'
     ahead : 0..MaxAhead,   \* active tenants with smaller ids
     failing : BOOLEAN]     \* one of those listed before it makes the pass throw

\* The tenant is on the list, and the pass gets to it.
activeTenantIds == standing.active /\ standing.ahead < tenantLimit
Visited == activeTenantIds /\ ~standing.failing

FailsOnlyAhead(x) == x.failing => x.ahead > 0

TenantsInit == standing \in Standing /\ FailsOnlyAhead(standing)

\* Tenants are created, suspended and taken up again, and a tenant's data makes its own
\* part of the pass fail or no longer fail.
TenantsMove ==
    /\ standing' \in Standing \ {standing}
    /\ FailsOnlyAhead(standing')

==================================================================================

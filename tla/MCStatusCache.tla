--------------------------- MODULE MCStatusCache ---------------------------
(***************************************************************************)
(* Two request threads, a TTL of one tick and one control call: the        *)
(* smallest instance in which a slow reader outlives a page stored by the  *)
(* other and a page expires under a waiting request.                       *)
(***************************************************************************)
EXTENDS StatusCache

CONSTANTS t1, t2

MCThreads == {t1, t2}
\* include_accounts, as the dashboards leave it and as any caller may send it.
Light == {FALSE}
AnyDetail == BOOLEAN

=============================================================================

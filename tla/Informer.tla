------------------------------ MODULE Informer ------------------------------
(***************************************************************************)
(* One kind of API object as the controllers see it.  They read through    *)
(* the cached client of the manager (mgr.GetClient()) and write to the API *)
(* server.  A window is the sequence of versions from the one the cache    *)
(* holds (first) to the one the server stores (last): a write appends, a   *)
(* watch event drops the first.  So a cache may lag behind the server, it  *)
(* skips no version and it never goes back.                                *)
(***************************************************************************)
EXTENDS Naturals, Sequences

Cached(w) == w[1]

Stored(w) == w[Len(w)]

\* A write that changes nothing makes no version and no event.
Written(w, v) == IF v = Stored(w) THEN w ELSE Append(w, v)

\* The same with a bound on how many versions the cache may be behind; with
\* lag 0 every read is of the stored version.
Room(w, lag) == lag = 0 \/ Len(w) <= lag

Pushed(w, v, lag) == IF lag = 0 THEN <<v>> ELSE Written(w, v)

\* A restarted process lists the server before it reconciles anything.
Relisted(w) == <<Stored(w)>>

Windows(S) == Seq(S) \ {<<>>}
=============================================================================

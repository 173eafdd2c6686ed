---------------------------- MODULE SessionCache ----------------------------
(***************************************************************************)
(* The internal session cache of a server's tls_CTX (ssl_sess.c), shared   *)
(* by connections in threads of their own: the hash table and the list     *)
(* behind it, the reference counts of the sessions, and the steps in which *)
(* a connection looks a session up, resumes it, makes a new one, caches it *)
(* and gives it up.                                                        *)
(*                                                                         *)
(* What happens under the lock of the tls_CTX is one step; between two     *)
(* locked regions, and around the callbacks, other threads run.            *)
(***************************************************************************)
EXTENDS Integers, Sequences, FiniteSets, SequencesExt

CONSTANTS
  Conns,           \* the connections, each in its own thread
  Configurations,  \* the ways of using the cache that are looked at
  CacheSize,       \* tls_CTX_sess_get_cache_size
  Objects,         \* the memory for tls_SESSION objects: a bound
  Ids,             \* the session ids that are generated: a bound
  None,            \* NULL, and the empty session id
  MaxTickets       \* bound: NewSessionTickets of a connection

\* version: TLSv1.2 resumes by session id; TLSv1.3 by a stateful ticket, with
\* replay protection (max_early_data > 0).  external: the application keeps
\* an external cache, with new_session_cb, get_session_cb, remove_session_cb.
AllConfigurations == [version : {"TLSv1.2", "TLSv1.3"}, external : BOOLEAN]

ASSUME CacheAssumption ==
  /\ Configurations \subseteq AllConfigurations
  /\ CacheSize \in Nat \ {0} /\ MaxTickets \in Nat /\ IsFiniteSet(Conns)
  /\ None \notin Objects \cup Ids

VARIABLES
  conf,       \* the configuration
  sess,       \* the tls_SESSION objects
  sessions,   \* ctx->sessions, the hash table: what was inserted under an id
  list,       \* the list from session_cache_head to session_cache_tail
  issued,     \* the ids that were generated
  expired,    \* the ids whose sessions are past their timeout
  store,      \* the ids in the external cache
  conn,       \* the connections
  redeemed    \* history: the ids replay protection has let a connection resume

vars == <<conf, sess, sessions, list, issued, expired, store, conn, redeemed>>

Session ==
  [references : Nat, session_id : Ids \cup {None}, not_resumable : BOOLEAN]

\* An object without references is free.
Free == [references |-> 0, session_id |-> None, not_resumable |-> FALSE]

\* pc: where the thread is.  session: s->session.  ret: the session that was
\* found, or the one being added.  r: what remove_session_lock took out of
\* the table and has yet to free.  then: where a cache operation goes on.
Connection ==
  [pc : {"closed", "asking", "found", "removing", "adding", "full", "hello", "finish", "storing",
         "open"},
   session : Objects \cup {None}, asked : Ids \cup {None}, ret : Objects \cup {None},
   r : Objects \cup {None}, hit : BOOLEAN, echoed : BOOLEAN, sent_tickets : 0..MaxTickets,
   then : {"closed", "found", "open", "resumed", "missed", "close"}]

Closed == [pc |-> "closed", session |-> None, asked |-> None, ret |-> None, r |-> None,
           hit |-> FALSE, echoed |-> TRUE, sent_tickets |-> 0, then |-> "closed"]

Init ==
  /\ conf \in Configurations
  /\ sess = [x \in Objects |-> Free]
  /\ sessions = [id \in Ids |-> None] /\ list = <<>>
  /\ issued = {} /\ expired = {} /\ store = {} /\ redeemed = {}
  /\ conn = [c \in Conns |-> Closed]

-----------------------------------------------------------------------------
(***************************************************************************)
(* Operators on the objects and on the table.                              *)
(***************************************************************************)
tls_SESSION_up_ref(o, x) == [o EXCEPT ![x].references = @ + 1]

tls_SESSION_free(o, x) ==
  CASE x = None -> o
    [] x # None /\ o[x].references = 1 -> [o EXCEPT ![x] = Free]
    [] OTHER -> [o EXCEPT ![x].references = @ - 1]

\* tls_SESSION_new and tls_session_dup: an object that is free.
IsFree(x) == sess[x].references = 0

New(o, x, id, not_resumable) ==
  [o EXCEPT ![x] = [references |-> 1, session_id |-> id, not_resumable |-> not_resumable]]

\* tls_generate_session_id: ids are random and do not repeat.
FreshIds == Ids \ issued

\* lh_tls_SESSION_retrieve, in a table t of objects o: an entry is looked for
\* where the id it was inserted with hashes to, and its id is compared.
Retrieve(o, t, id) ==
  IF id # None /\ t[id] # None /\ o[t[id]].session_id = id THEN t[id] ELSE None

\* The sessions in a table, and a table without one.
Cached(t) == {t[id] : id \in Ids} \ {None}

Delete(t, x) == [id \in Ids |-> IF t[id] = x THEN None ELSE t[id]]

\* A list without the sessions in S: its places that are kept, each with the
\* number of those up to it.
Without(l, S) ==
  LET kept == {i \in 1..Len(l) : l[i] \notin S}
      Place(j) == CHOOSE i \in kept : Cardinality({m \in kept : m <= i}) = j
  IN [j \in 1..Cardinality(kept) |-> l[Place(j)]]

\* What is in the table under the id of x.
Found(x) == Retrieve(sess, sessions, sess[x].session_id)

Marked(o, x) == IF o[x].session_id = None THEN o ELSE [o EXCEPT ![x].not_resumable = TRUE]

Go(c, pc) == [conn EXCEPT ![c].pc = pc]

-----------------------------------------------------------------------------
(***************************************************************************)
(* Looking up a session.                                                   *)
(***************************************************************************)
\* A ClientHello asks for a session, or for none.  lookup_sess_in_cache: the
\* reference is taken before the lock is released.
Lookup(c, id) ==
  LET x == Retrieve(sess, sessions, id)
  IN /\ conn[c].pc = "closed"
     /\ id \in issued
     /\ conn' = [conn EXCEPT ![c] =
          [Closed EXCEPT !.asked = id, !.ret = x,
             !.pc = IF x # None THEN "found" ELSE IF conf.external THEN "asking" ELSE "full"]]
     /\ sess' = IF x # None THEN tls_SESSION_up_ref(sess, x) ELSE sess
     /\ UNCHANGED <<conf, sessions, list, issued, expired, store, redeemed>>

AskForNone(c) ==
  /\ conn[c].pc = "closed"
  /\ conn' = [conn EXCEPT ![c] = [Closed EXCEPT !.pc = "full"]]
  /\ UNCHANGED <<conf, sess, sessions, list, issued, expired, store, redeemed>>

\* get_session_cb: the external cache makes an object of what it has kept,
\* and the connection is to add it to the internal cache.
AskExternal(c) ==
  /\ conn[c].pc = "asking"
  /\ \/ /\ conn[c].asked \notin store
        /\ conn' = Go(c, "full") /\ UNCHANGED sess
     \/ /\ conn[c].asked \in store
        /\ \E x \in Objects :
             /\ IsFree(x)
             /\ sess' = tls_SESSION_up_ref(New(sess, x, conn[c].asked, FALSE), x)
             /\ conn' = [conn EXCEPT ![c].pc = "adding", ![c].ret = x, ![c].then = "found"]
  /\ UNCHANGED <<conf, sessions, list, issued, expired, store, redeemed>>

\* tls_get_prev_session: nothing is wrong with the session, and it is taken.
Resume(c) ==
  /\ conn' = [conn EXCEPT ![c].pc = "hello", ![c].session = conn[c].ret, ![c].ret = None,
                          ![c].hit = TRUE]
  /\ UNCHANGED <<conf, sess, sessions, list, issued, expired, store, redeemed>>

\* tls_CTX_remove_session, up to the unlocking.
RemoveLocked(c, x, then) ==
  /\ sess' = Marked(sess, x)
  /\ sessions' = Delete(sessions, Found(x))
  /\ list' = Without(list, {Found(x)})
  /\ conn' = [conn EXCEPT ![c].pc = "removing", ![c].r = Found(x), ![c].then = then]
  /\ UNCHANGED <<conf, issued, expired, store>>

\* tls_get_prev_session with a session from the cache: one that is too old
\* is removed and not taken.
CheckTimeout(c) ==
  LET x == conn[c].ret
  IN /\ conn[c].pc = "found" /\ conf.version = "TLSv1.2"
     /\ IF conn[c].asked \in expired
        THEN RemoveLocked(c, x, "missed") /\ UNCHANGED redeemed
        ELSE Resume(c)

\* Mutant: the result of tls_CTX_remove_session is not looked at.
AnyTicket(x) == TRUE

\* tls_CTX_remove_session returns 1.
StillCached(x) == Found(x) # None

\* tls_parse_ctos_psk: the ticket is good if it could still be removed.
CheckReplay(c) ==
  LET x == conn[c].ret
      once == StillCached(x)
  IN /\ conn[c].pc = "found" /\ conf.version = "TLSv1.3"
     /\ RemoveLocked(c, x, IF once /\ conn[c].asked \notin expired THEN "resumed" ELSE "missed")
     /\ redeemed' = IF once THEN redeemed \cup {conn[c].asked} ELSE redeemed

\* The rest of tls_CTX_remove_session: the callback, and the reference of the
\* cache; then the caller goes on.
Removed(c) ==
  LET k == conn[c]
      of == IF k.then = "close" THEN k.session ELSE k.ret
      freed == tls_SESSION_free(sess, k.r)
  IN /\ k.pc = "removing"
     /\ store' = IF conf.external THEN store \ {sess[of].session_id} ELSE store
     /\ conn' = [conn EXCEPT ![c] =
          CASE k.then = "resumed" -> [k EXCEPT !.pc = "hello", !.r = None, !.session = k.ret,
                                               !.ret = None, !.hit = TRUE]
            [] k.then = "missed" -> [k EXCEPT !.pc = "full", !.r = None, !.ret = None]
            [] k.then = "close" -> Closed]
     /\ sess' = IF k.then = "resumed" THEN freed ELSE tls_SESSION_free(freed, of)
     /\ UNCHANGED <<conf, sessions, list, issued, expired, redeemed>>

-----------------------------------------------------------------------------
(***************************************************************************)
(* Making and caching a session.                                           *)
(***************************************************************************)
\* tls_get_new_session: in TLSv1.3 the id comes with the first ticket.
NewSession(c) ==
  /\ conn[c].pc = "full"
  /\ \E x \in Objects :
       /\ IsFree(x)
       /\ conn' = [conn EXCEPT ![c].pc = "hello", ![c].session = x]
       /\ \/ /\ conf.version = "TLSv1.2"
             /\ \E id \in FreshIds : sess' = New(sess, x, id, FALSE) /\ issued' = issued \cup {id}
          \/ /\ conf.version = "TLSv1.3"
             /\ sess' = New(sess, x, None, FALSE) /\ UNCHANGED issued
  /\ UNCHANGED <<conf, sessions, list, expired, store, redeemed>>

\* tls_construct_server_hello: a session that is not resumable loses its id.
ServerHello(c) ==
  LET x == conn[c].session
      s2 == IF sess[x].not_resumable THEN [sess EXCEPT ![x].session_id = None] ELSE sess
  IN /\ conn[c].pc = "hello"
     /\ sess' = s2
     /\ conn' = [conn EXCEPT ![c].pc = IF conf.version = "TLSv1.2" THEN "finish" ELSE "open",
                             ![c].echoed = (conf.version = "TLSv1.3" \/ s2[x].session_id = conn[c].asked)]
     /\ UNCHANGED <<conf, sessions, list, issued, expired, store, redeemed>>

\* tls_CTX_add_session begins with a reference for the cache.
BeginAdd(c, o, x) ==
  /\ sess' = tls_SESSION_up_ref(o, x)
  /\ conn' = [conn EXCEPT ![c].pc = "adding", ![c].session = x, ![c].ret = x, ![c].then = "open",
                          ![c].sent_tickets = IF conf.version = "TLSv1.3" THEN @ + 1 ELSE @]

\* tls_update_cache at the end of a TLSv1.2 handshake.
Finish(c) ==
  LET x == conn[c].session
  IN /\ conn[c].pc = "finish"
     /\ \/ /\ conn[c].hit \/ sess[x].session_id = None
           /\ conn' = Go(c, "open") /\ UNCHANGED sess
        \/ /\ ~conn[c].hit /\ sess[x].session_id # None
           /\ BeginAdd(c, sess, x)
     /\ UNCHANGED <<conf, sessions, list, issued, expired, store, redeemed>>

\* Mutant: only a resumed session is copied.
CopiesResumed(c) == conn[c].hit

\* The session may be in the cache, and must not be changed.
CopiesSession(c) == conn[c].sent_tickets # 0 \/ conn[c].hit

\* tls_construct_new_session_ticket: a session that may be in the cache is
\* not changed but copied; then tls_update_cache.
NewTicket(c) ==
  LET x == conn[c].session
  IN /\ conn[c].pc = "open" /\ conf.version = "TLSv1.3"
     /\ conn[c].sent_tickets < MaxTickets
     /\ \E id \in FreshIds :
          /\ issued' = issued \cup {id}
          /\ \/ /\ CopiesSession(c)
                /\ \E y \in Objects :
                     /\ IsFree(y)
                     /\ BeginAdd(c, tls_SESSION_free(New(sess, y, id, sess[x].not_resumable), x), y)
             \/ /\ ~CopiesSession(c)
                /\ BeginAdd(c, [sess EXCEPT ![x].session_id = id], x)
     /\ UNCHANGED <<conf, sessions, list, expired, store, redeemed>>

\* Mutant: the session that is replaced is not freed.
ReplacedLost(x) ==
  [sess |-> sess, gone |-> {}, sessions |-> [sessions EXCEPT ![sess[x].session_id] = x],
   list |-> <<x>> \o Without(list, {Found(x)})]

\* lh_tls_SESSION_insert and tls_SESSION_list_add: x is the newest entry, and
\* another with the same id is gone.
Inserted(x) ==
  [sess |-> tls_SESSION_free(sess, Found(x)), gone |-> {},
   sessions |-> [sessions EXCEPT ![sess[x].session_id] = x],
   list |-> <<x>> \o Without(list, {Found(x)})]

\* Mutant: the caller's reference is dropped as well.
FreedTwice(x) ==
  [sess |-> tls_SESSION_free(tls_SESSION_free(sess, x), x), gone |-> {},
   sessions |-> sessions, list |-> list]

\* The reference is taken back: x is there already, or there is no memory for it.
NotInserted(x) ==
  [sess |-> tls_SESSION_free(sess, x), gone |-> {}, sessions |-> sessions, list |-> list]

\* The oldest entry goes if there are too many (remove_session_lock, with the
\* lock held).
Evicted(k) ==
  LET x == Last(k.list)
      r == Retrieve(k.sess, k.sessions, k.sess[x].session_id)
  IN IF Cardinality(Cached(k.sessions)) <= CacheSize THEN k
     ELSE [sess |-> tls_SESSION_free(Marked(k.sess, x), r), gone |-> {k.sess[x].session_id},
           sessions |-> Delete(k.sessions, r), list |-> Without(k.list, {r})]

\* tls_CTX_add_session, the locked region.
AddLocked(c) ==
  LET x == conn[c].ret
  IN /\ conn[c].pc = "adding"
     /\ \E k \in (IF Found(x) = x THEN {NotInserted(x)}
                  ELSE IF Found(x) # None THEN {Evicted(Inserted(x))}
                  ELSE {NotInserted(x), Evicted(Inserted(x))}) :
          /\ sess' = k.sess /\ sessions' = k.sessions /\ list' = k.list
          /\ store' = store \ k.gone
     /\ conn' = [conn EXCEPT
          ![c].pc = IF conn[c].then = "open" /\ conf.external THEN "storing" ELSE conn[c].then,
          ![c].ret = IF conn[c].then = "open" THEN None ELSE @]
     /\ UNCHANGED <<conf, issued, expired, redeemed>>

\* new_session_cb, which keeps a copy of its own or refuses.
StoreExternal(c) ==
  /\ conn[c].pc = "storing"
  /\ store' \in {store, (store \cup {sess[conn[c].session].session_id}) \ {None}}
  /\ conn' = Go(c, "open")
  /\ UNCHANGED <<conf, sess, sessions, list, issued, expired, redeemed>>

-----------------------------------------------------------------------------
(***************************************************************************)
(* Giving sessions up.                                                     *)
(***************************************************************************)
\* Where a connection has a session and may be given up.
HasSession(c) == conn[c].pc \in {"hello", "finish", "open"}

\* A connection that has sent a fatal alert, or breaks off after the handshake,
\* removes its session (tls3_send_alert, tls_clear_bad_session), and is freed.
CloseBad(c) ==
  /\ HasSession(c) /\ RemoveLocked(c, conn[c].session, "close")
  /\ UNCHANGED redeemed

\* A connection that was shut down, or breaks off in the handshake, is freed
\* (tls_free).
CloseGood(c) ==
  /\ HasSession(c)
  /\ sess' = tls_SESSION_free(sess, conn[c].session)
  /\ conn' = [conn EXCEPT ![c] = Closed]
  /\ UNCHANGED <<conf, sessions, list, issued, expired, store, redeemed>>

\* tls_CTX_flush_sessions, which any thread may call.
TimedOut == {x \in Cached(sessions) : sess[x].session_id \in expired}

Flush ==
  /\ TimedOut # {}
  /\ sess' = [x \in Objects |->
                IF x \notin TimedOut THEN sess[x]
                ELSE tls_SESSION_free(Marked(sess, x), x)[x]]
  /\ sessions' = [id \in Ids |-> IF sessions[id] \in TimedOut THEN None ELSE sessions[id]]
  /\ list' = Without(list, TimedOut)
  /\ store' = store \ {sess[x].session_id : x \in TimedOut}
  /\ UNCHANGED <<conf, issued, expired, conn, redeemed>>

\* Time passes.
GrowOld(id) ==
  /\ id \in issued \ expired
  /\ expired' = expired \cup {id}
  /\ UNCHANGED <<conf, sess, sessions, list, issued, store, conn, redeemed>>

Step(c) ==
  \/ \E id \in Ids : Lookup(c, id)
  \/ AskForNone(c) \/ AskExternal(c) \/ CheckTimeout(c) \/ CheckReplay(c) \/ Removed(c)
  \/ NewSession(c) \/ ServerHello(c) \/ Finish(c) \/ NewTicket(c) \/ AddLocked(c)
  \/ StoreExternal(c) \/ CloseBad(c) \/ CloseGood(c)

Next ==
  \/ \E c \in Conns : Step(c)
  \/ Flush
  \/ \E id \in Ids : GrowOld(id)

Spec == Init /\ [][Next]_vars

-----------------------------------------------------------------------------
\* The types: no count goes below zero, and what is stored or redeemed is an
\* id that was issued.
TypeOK ==
  /\ conf \in Configurations
  /\ sess \in [Objects -> Session]
  /\ sessions \in [Ids -> Objects \cup {None}]
  /\ list \in Seq(Objects)
  /\ issued \subseteq Ids /\ expired \subseteq issued /\ store \subseteq issued
  /\ redeemed \subseteq issued
  /\ conn \in [Conns -> Connection]

\* The references of a connection: its session; the session that was found;
\* one being removed from the cache, and one being added.
References == {"session", "ret", "r", "added"}

Reference(k, p) ==
  CASE p = "session" -> k.session
    [] p = "r" -> k.r
    [] p = "ret" -> IF k.pc \in {"found", "removing"} \/ k.then = "found" THEN k.ret ELSE None
    [] p = "added" -> IF k.pc = "adding" THEN k.ret ELSE None

Holders(x) == {h \in Conns \X References : Reference(conn[h[1]], h[2]) = x}

\* The reference count of a session is the number of those who still use it,
\* the cache with its table and its list counting once: no session is freed
\* under a thread, and none is lost, whatever threads find, remove, evict,
\* flush and replace at the same time.
RefsExact ==
  \A x \in Objects :
    sess[x].references = (IF x \in Cached(sessions) THEN 1 ELSE 0) + Cardinality(Holders(x))

\* The list holds the sessions of the table, each once, within the size of
\* the cache; and a session in the table keeps the id it is found by
\* ("Sessions must be immutable once they go into the session cache").
CacheConsistent ==
  /\ ToSet(list) = Cached(sessions) /\ Len(list) = Cardinality(Cached(sessions))
  /\ Len(list) <= CacheSize
  /\ \A id \in Ids : sessions[id] # None => sess[sessions[id]].session_id = id

Tickets == INSTANCE TicketStore WITH
  Tickets <- Ids,
  offered <- {id \in Ids : Retrieve(sess, sessions, id) # None}

\* The cache is a store of single-use tickets: of all connections that come
\* with the same ticket one at most is resumed (SSL_read_early_data.pod,
\* "sessions are forced to be single use only").
SingleUse == Tickets!Spec

\* tls_construct_server_hello: "For session reuse from the session cache, we
\* send back the old session ID."
OldIdSentBack ==
  \A c \in Conns : conn[c].hit => conn[c].echoed

=============================================================================

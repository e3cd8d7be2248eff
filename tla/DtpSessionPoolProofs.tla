------------------------ MODULE DtpSessionPoolProofs ------------------------
(***************************************************************************)
(* The properties of DtpSessionPool for any number of threads, sessions    *)
(* and connections.                                                        *)
(***************************************************************************)
EXTENDS DtpSessionPool, TLAPS

----------------------------------------------------------------------------
(* What the threads have at each control point.                            *)

\* A thread outside a call has no connection of dtp_start_transfer; a VMEM call
\* is made where the code makes one; a stream is open only while receiving,
\* unless port 8 was taken.
Local(u, r) ==
    /\ r.pc \notin {"idle", "no_session", "null"} => r.slot \in Slots
    /\ r.pc \notin {"request", "start", "bind", "loop"} => r.conn = Null
    /\ r.vmem # Null => r.pc = "loop" \/ (r.pc = "prepared" /\ u \in VmemUsers)
    /\ r.stream = "open" => r.unbound \/ r.pc \in {"bind", "loop"}

LocalInv == \A u \in Users : Local(u, user[u])

\* A step that gives one thread a record of the right kind keeps all of them.
LEMMA UserExcept ==
    ASSUME TypeOK, LocalInv, NEW u \in Users, NEW r \in UserType, Local(u, r),
           user' = [user EXCEPT ![u] = r]
    PROVE  /\ user' \in [Users -> UserType] /\ user'[u] = r
           /\ \A v \in Users : v # u => user'[v] = user[v]
           /\ LocalInv'
<1>1. user \in [Users -> UserType]
  BY DEF TypeOK
<1>2. user' \in [Users -> UserType] /\ user'[u] = r /\ \A v \in Users : v # u => user'[v] = user[v]
  BY <1>1
<1>3. \A v \in Users : Local(v, user'[v])
  BY <1>2 DEF LocalInv
<1> QED BY <1>2, <1>3 DEF LocalInv, Local

\* So does a step that changes one slot.
LEMMA SlotExcept ==
    ASSUME TypeOK, NEW s \in Slots, NEW t \in SlotType, slots' = [slots EXCEPT ![s] = t]
    PROVE  /\ slots' \in [Slots -> SlotType] /\ slots'[s] = t
           /\ \A r \in Slots : r # s => slots'[r] = slots[r]
  BY DEF TypeOK

\* csp_close frees the connection it is given and no other.
LEMMA Closing ==
    ASSUME NEW cs \in [Conns -> Users \cup {Free, Lost}], NEW h \in Conns \cup {Null}
    PROVE  /\ csp_close(cs, h) \in [Conns -> Users \cup {Free, Lost}]
           /\ \A g \in Conns : csp_close(cs, h)[g] = IF g = h THEN Free ELSE cs[g]
  BY PoolAssumption DEF csp_close

----------------------------------------------------------------------------
(* What each step does, as far as the invariants can tell.                 *)

\* Control points at which a thread has no session.
Without == {"idle", "take", "clear", "clear_null", "no_session", "null"}

\* A step of thread u gives it record r and its slot contents t.
Gives(u, r, t) ==
    /\ user' = [user EXCEPT ![u] = r]
    /\ slots' = [slots EXCEPT ![user[u].slot] = t]

\* A connection stays with who had it, and u loses none that it did not close.
Held(u, r) ==
    \A h \in Conns : conns'[h] \in Users =>
       \/ conns'[h] = conns[h] /\ (conns[h] = u /\ h \in {user[u].conn, user[u].vmem} => h \in {r.conn, r.vmem})
       \/ conns'[h] = u /\ h \in {r.conn, r.vmem}

\* A step of a thread that has a session and keeps it.
Stays(u) ==
    \E r \in UserType, t \in SlotType :
       /\ Gives(u, r, t)
       /\ Local(u, r)
       /\ user[u].pc \notin Without /\ r.pc \notin Without
       /\ r.slot = user[u].slot
       /\ t.in_use = SlotOf(u).in_use
       /\ r.pc \in {"bind", "loop"} =>
             \/ t.active = TRUE /\ r.stopped = FALSE
             \/ user[u].pc \in {"bind", "loop"} /\ t.active = SlotOf(u).active /\ r.stopped = user[u].stopped
       /\ r.pc # "prepare"
       /\ conns' \in [Conns -> Users \cup {Free, Lost}]
       /\ Held(u, r)

\* The record of a thread back in dtp_client_main.
LEMMA BackRecord ==
    ASSUME TypeOK, NEW u \in Users
    PROVE  \E p \in {"returned", "release"} :
              Back(u) = [user[u] EXCEPT !.pc = p, !.conn = Null, !.stopped = FALSE]
<1>1. CASE user[u].held
  BY <1>1, Zenon DEF Back
<1>2. CASE ~user[u].held
  BY <1>2, Zenon DEF Back
<1> QED BY <1>1, <1>2

\* Every path on which dtp_start_transfer fails.
LEMMA FailStays ==
    ASSUME TypeOK, LocalInv, NEW u \in Users, NEW e \in Errors,
           user[u].pc \in {"prepared", "request", "bind"},
           user[u].pc = "prepared" => u \notin VmemUsers,
           TransferFails(u, e)
    PROVE  Stays(u)
<1> DEFINE b == user[u].unbound \/ user[u].pc = "bind"
           s == user[u].slot
           t == [slots[s] EXCEPT !.errno = e]
<1>1. PICK p \in {"returned", "release"} : Back(u) = [user[u] EXCEPT !.pc = p, !.conn = Null, !.stopped = FALSE]
  BY BackRecord
<1>b. b \in BOOLEAN /\ (user[u].unbound => b) /\ (user[u].pc = "bind" => b)
  BY Zenon
<1> DEFINE r == [[user[u] EXCEPT !.pc = p, !.conn = Null, !.stopped = FALSE] EXCEPT !.unbound = b]
<1>2. user[u] \in UserType /\ Local(u, user[u]) /\ slots \in [Slots -> SlotType] /\ conns \in [Conns -> Users \cup {Free, Lost}]
  BY DEF TypeOK, LocalInv
<1>3. Back(u).unbound = user[u].unbound
  BY <1>1, <1>2 DEF UserType
<1>4. user' = [user EXCEPT ![u] = r]
  BY <1>1, <1>3, Zenon DEF TransferFails
<1>5. slots' = [slots EXCEPT ![s] = t] /\ conns' = csp_close(conns, user[u].conn)
  BY DEF TransferFails
<1>6. s \in Slots /\ slots[s] \in SlotType /\ t \in SlotType /\ t.in_use = slots[s].in_use
  BY <1>2 DEF Local, SlotType
<1> HIDE DEF b
<1>7. /\ r \in UserType /\ r.pc = p /\ r.slot = s /\ r.conn = Null /\ r.vmem = user[u].vmem
      /\ r.unbound = b /\ r.stream = user[u].stream
  BY <1>2, <1>b DEF UserType, Points
<1>8. user[u].vmem = Null
  BY <1>2 DEF Local
<1>9. r.stream = "open" => r.unbound
  <2>1. user[u].stream = "open" => user[u].unbound \/ user[u].pc = "bind"
    BY <1>2 DEF Local
  <2> QED BY <2>1, <1>7, <1>b, Zenon
<1>10. Local(u, r)
  <2> HIDE DEF r
  <2> QED BY <1>6, <1>7, <1>8, <1>9 DEF Local
<1>11. conns' \in [Conns -> Users \cup {Free, Lost}] /\ \A h \in Conns : conns'[h] = IF h = user[u].conn THEN Free ELSE conns[h]
  <2>1. user[u].conn \in Conns \cup {Null}
    BY <1>2 DEF UserType
  <2> QED BY <2>1, <1>2, <1>5, Closing
<1> HIDE DEF r, t
<1>12. Held(u, r)
  BY <1>7, <1>8, <1>11, PoolAssumption DEF Held, Free
<1> QED BY <1>4, <1>5, <1>6, <1>7, <1>10, <1>11, <1>12 DEF Stays, Gives, Without, SlotOf

\* What is known of a thread that has a session.
LEMMA Has ==
    ASSUME TypeOK, LocalInv, NEW u \in Users, user[u].pc \notin {"idle", "no_session", "null"}
    PROVE  /\ user[u] \in UserType /\ Local(u, user[u])
           /\ user[u].slot \in Slots /\ SlotOf(u) \in SlotType
           /\ slots = [slots EXCEPT ![user[u].slot] = SlotOf(u)]
           /\ conns \in [Conns -> Users \cup {Free, Lost}]
<1>1. user[u] \in UserType /\ Local(u, user[u]) /\ slots \in [Slots -> SlotType]
  BY DEF TypeOK, LocalInv
<1>2. user[u].slot \in Slots
  BY <1>1 DEF Local
<1> QED BY <1>1, <1>2 DEF TypeOK, SlotOf

\* dtp_prepare_session, a session that has something to fetch or not.
LEMMA PrepareStays ==
    ASSUME TypeOK, LocalInv, NEW u \in Users,
           (\E no_meta \in BOOLEAN : Prepare(u, no_meta)) \/ PrepareExhausted(u)
    PROVE  Stays(u)
<1>1. user[u].pc = "prepare" /\ conns' = conns
  BY DEF Prepare, PrepareExhausted, At
<1>2. /\ user[u] \in UserType /\ Local(u, user[u]) /\ user[u].slot \in Slots /\ SlotOf(u) \in SlotType
      /\ conns \in [Conns -> Users \cup {Free, Lost}]
  BY <1>1, Has
<1> DEFINE Some == \E q \in {"prepared", "exhausted"}, t \in SlotType :
                      /\ Gives(u, [user[u] EXCEPT !.pc = q], t)
                      /\ t.in_use = SlotOf(u).in_use
<1>3. Some
  <2>1. ASSUME NEW no_meta \in BOOLEAN, Prepare(u, no_meta)
        PROVE  Some
    <3> DEFINE e == IF no_meta THEN "failed" ELSE SlotOf(u).errno
               t == [SlotOf(u) EXCEPT !.errno = e, !.session_id = IdOf(u)]
    <3>0. e \in Errors
      BY <1>2 DEF SlotType, Errors
    <3>2. Gives(u, [user[u] EXCEPT !.pc = "prepared"], t)
      BY <2>1 DEF Prepare, Step, Gives, SlotOf
    <3> HIDE DEF e
    <3>1. t \in SlotType /\ t.in_use = SlotOf(u).in_use
      BY <1>2, <3>0 DEF SlotType, IdOf, Ids
    <3> QED BY <3>1, <3>2
  <2>2. ASSUME PrepareExhausted(u)
        PROVE  Some
    <3> DEFINE t == [SlotOf(u) EXCEPT !.errno = "exhausted"]
    <3>1. t \in SlotType /\ t.in_use = SlotOf(u).in_use
      BY <1>2 DEF SlotType, Errors
    <3>2. Gives(u, [user[u] EXCEPT !.pc = "exhausted"], t)
      BY <2>2 DEF PrepareExhausted, Step, Gives, SlotOf
    <3> QED BY <3>1, <3>2
  <2> QED BY <2>1, <2>2
<1>4. PICK q \in {"prepared", "exhausted"}, t \in SlotType :
         /\ Gives(u, [user[u] EXCEPT !.pc = q], t)
         /\ t.in_use = SlotOf(u).in_use
  BY <1>3
<1> DEFINE r == [user[u] EXCEPT !.pc = q]
<1>5. /\ r \in UserType /\ r.pc = q /\ r.slot = user[u].slot /\ r.conn = user[u].conn /\ r.vmem = user[u].vmem
      /\ r.stream = user[u].stream /\ r.unbound = user[u].unbound
  BY <1>2 DEF UserType, Points
<1>6. Local(u, r)
  <2> HIDE DEF r
  <2> QED BY <1>1, <1>2, <1>5 DEF Local
<1> HIDE DEF r
<1> QED BY <1>1, <1>2, <1>4, <1>5, <1>6 DEF Stays, Without, Held, r

\* dtp_start_transfer and the VMEM calls get a connection.
LEMMA ConnectStays ==
    ASSUME TypeOK, LocalInv, NEW u \in Users, NEW h \in Conns, Connect(u, h) \/ VmemConnect(u, h)
    PROVE  Stays(u)
<1>0. h # Null /\ conns[h] = Free /\ conns' = [conns EXCEPT ![h] = u] /\ user[u].pc \in {"prepared", "loop"}
  BY PoolAssumption DEF Connect, VmemConnect, csp_connect, At
<1>1. /\ user[u] \in UserType /\ Local(u, user[u]) /\ user[u].slot \in Slots /\ SlotOf(u) \in SlotType
      /\ slots = [slots EXCEPT ![user[u].slot] = SlotOf(u)]
      /\ conns \in [Conns -> Users \cup {Free, Lost}]
  BY <1>0, Has
<1>2. /\ conns' \in [Conns -> Users \cup {Free, Lost}]
      /\ \A g \in Conns : conns'[g] = IF g = h THEN u ELSE conns[g]
  BY <1>0, <1>1
<1>3. CASE Connect(u, h)
  <2> DEFINE r == [user[u] EXCEPT !.pc = "request", !.conn = h]
             t == [SlotOf(u) EXCEPT !.conn = h]
  <2>1. user[u].pc = "prepared" /\ u \notin VmemUsers /\ Gives(u, r, t)
    BY <1>3 DEF Connect, At, Gives, SlotOf
  <2>2. t \in SlotType /\ t.in_use = SlotOf(u).in_use
    BY <1>1 DEF SlotType
  <2>3. /\ r \in UserType /\ r.pc = "request" /\ r.slot = user[u].slot /\ r.conn = h /\ r.vmem = user[u].vmem
        /\ r.stream = user[u].stream /\ r.unbound = user[u].unbound
    BY <1>1 DEF UserType, Points
  <2> HIDE DEF r, t
  <2>4. Local(u, r) /\ user[u].conn = Null
    BY <1>1, <2>1, <2>3 DEF Local
  <2>5. Held(u, r)
    BY <1>0, <1>2, <2>3, <2>4, PoolAssumption DEF Held
  <2> QED BY <1>0, <1>1, <1>2, <2>1, <2>2, <2>3, <2>4, <2>5 DEF Stays, Without
<1>4. CASE VmemConnect(u, h)
  <2> DEFINE r == [user[u] EXCEPT !.vmem = h]
             t == SlotOf(u)
  <2>1. /\ user[u].pc = "prepared" => u \in VmemUsers
        /\ user[u].vmem = Null /\ user' = [user EXCEPT ![u] = r] /\ slots' = slots
    BY <1>4 DEF VmemConnect, At
  <2>2. Gives(u, r, t)
    BY <1>1, <2>1 DEF Gives
  <2>3. /\ r \in UserType /\ r.pc = user[u].pc /\ r.slot = user[u].slot /\ r.conn = user[u].conn /\ r.vmem = h
        /\ r.stream = user[u].stream /\ r.unbound = user[u].unbound /\ r.stopped = user[u].stopped
    BY <1>1 DEF UserType
  <2> HIDE DEF r, t
  <2>4. Local(u, r)
    BY <1>0, <1>1, <2>1, <2>3 DEF Local
  <2>5. Held(u, r)
    BY <1>0, <1>2, <2>1, <2>3, PoolAssumption DEF Held
  <2>6. r.pc # "prepare" /\ (r.pc \in {"bind", "loop"} => t.active = SlotOf(u).active /\ r.stopped = user[u].stopped)
    BY <1>0, <2>3 DEF t
  <2> QED BY <1>0, <1>1, <1>2, <2>2, <2>3, <2>4, <2>5, <2>6 DEF Stays, Without, t
<1> QED BY <1>3, <1>4

\* The other steps of a transfer in which the session stays as it is: a
\* response comes, a VMEM call ends, the port is bound, the caller begins again.
LEMMA QuietStays ==
    ASSUME TypeOK, LocalInv, NEW u \in Users,
           \/ Response(u) \/ VmemConnectFails(u) \/ VmemSend(u) \/ VmemNoBuffer(u)
           \/ Bind(u) \/ CallerRestarts(u)
    PROVE  Stays(u)
<1> DEFINE R == user[u]
<1>t. R \in UserType /\ Local(u, R)
  BY DEF TypeOK, LocalInv
<1>0. slots' = slots /\ R.pc \notin Without
  BY <1>t DEF Response, VmemConnectFails, VmemSend, VmemNoBuffer, Bind, CallerRestarts, At, Local, Without
<1>1. /\ R.slot \in Slots /\ SlotOf(u) \in SlotType
      /\ slots = [slots EXCEPT ![user[u].slot] = SlotOf(u)]
      /\ conns \in [Conns -> Users \cup {Free, Lost}]
  BY <1>0, Has DEF Without
<1> DEFINE Some(r) ==
        /\ user' = [user EXCEPT ![u] = r] /\ r \in UserType /\ Local(u, r)
        /\ r.pc \notin Without /\ r.slot = R.slot /\ r.pc # "prepare"
        /\ r.pc \in {"bind", "loop"} => R.pc \in {"bind", "loop"} /\ r.stopped = R.stopped
        /\ conns' \in [Conns -> Users \cup {Free, Lost}] /\ Held(u, r)
<1>2. ASSUME NEW q \in {"start", "loop", "prepared"}, user' = [user EXCEPT ![u].pc = q], conns' = conns,
             q = "start" => R.pc = "request", q = "loop" => R.pc = "bind", q = "prepared" => R.pc = "returned"
      PROVE  Some([R EXCEPT !.pc = q])
  <2> DEFINE r == [R EXCEPT !.pc = q]
  <2>1. user' = [user EXCEPT ![u] = r]
    BY <1>2
  <2>2. /\ r \in UserType /\ r.pc = q /\ r.slot = R.slot /\ r.conn = R.conn /\ r.vmem = R.vmem
        /\ r.stopped = R.stopped /\ r.stream = R.stream /\ r.unbound = R.unbound
    BY <1>t DEF UserType, Points
  <2> HIDE DEF r
  <2>3. Local(u, r)
    BY <1>1, <1>2, <1>t, <2>2 DEF Local
  <2>4. Held(u, r)
    BY <1>2, <2>2 DEF Held
  <2>5. Some(r)
    BY <1>1, <1>2, <2>1, <2>2, <2>3, <2>4 DEF Without
  <2> QED BY <2>5 DEF r
<1>3. ASSUME VmemConnectFails(u)
      PROVE  \E r : Some(r)
  <2>1. PICK p \in {"returned", "release"} : Back(u) = [R EXCEPT !.pc = p, !.conn = Null, !.stopped = FALSE]
    BY BackRecord
  <2> DEFINE r == [R EXCEPT !.pc = p, !.conn = Null, !.stopped = FALSE]
  <2>2. user' = [user EXCEPT ![u] = r] /\ conns' = conns /\ R.pc = "prepared" /\ R.vmem = Null
    BY <1>3, <2>1 DEF VmemConnectFails, At
  <2>3. /\ r \in UserType /\ r.pc = p /\ r.slot = R.slot /\ r.conn = Null /\ r.vmem = R.vmem
        /\ r.stream = R.stream /\ r.unbound = R.unbound
    BY <1>t DEF UserType, Points
  <2> HIDE DEF r
  <2>4. Local(u, r) /\ R.conn = Null
    BY <1>1, <1>t, <2>2, <2>3 DEF Local
  <2> QED BY <1>1, <2>2, <2>3, <2>4 DEF Held, Without
<1>4. ASSUME VmemSend(u) \/ VmemNoBuffer(u)
      PROVE  \E r : Some(r)
  <2>1. R.vmem \in Conns /\ R.vmem # Null /\ (R.pc = "loop" \/ R.pc = "prepared")
    <3>1. R.vmem # Null
      BY <1>4 DEF VmemSend, VmemNoBuffer
    <3> QED BY <3>1, <1>t DEF UserType, Local
  <2>2. PICK q \in {"start", "returned", "loop"} :
           /\ user' = [user EXCEPT ![u] = [R EXCEPT !.vmem = Null, !.pc = q]]
           /\ q = "loop" => R.pc = "loop"
           /\ R.pc = "loop" => q = "loop"
    <3>1. CASE R.pc = "prepared"
      <4>1. \E q \in {"start", "returned"} : user' = [user EXCEPT ![u] = [R EXCEPT !.vmem = Null, !.pc = q]]
        BY <1>4, <3>1 DEF VmemSend, VmemNoBuffer
      <4> QED BY <3>1, <4>1
    <3>2. CASE R.pc = "loop"
      <4>1. user' = [user EXCEPT ![u] = [R EXCEPT !.vmem = Null]]
        BY <1>4, <3>2 DEF VmemSend, VmemNoBuffer
      <4>2. [R EXCEPT !.vmem = Null] = [R EXCEPT !.vmem = Null, !.pc = "loop"]
        BY <1>t, <3>2 DEF UserType
      <4> QED BY <3>2, <4>1, <4>2
    <3> QED BY <2>1, <3>1, <3>2
  <2>3. /\ conns' \in [Conns -> Users \cup {Free, Lost}]
        /\ \A g \in Conns : conns'[g] \in Users => conns'[g] = conns[g] /\ (conns[g] = u => g # R.vmem)
    <3>1. CASE VmemSend(u)
      <4>1. conns' = csp_close(conns, R.vmem)
        BY <3>1 DEF VmemSend
      <4> QED BY <4>1, <1>1, <2>1, Closing, PoolAssumption DEF Free
    <3>2. CASE VmemNoBuffer(u)
      <4>1. conns' = [conns EXCEPT ![R.vmem] = IF @ = u THEN Lost ELSE @]
        BY <3>2 DEF VmemNoBuffer
      <4> QED BY <4>1, <1>1, <2>1, PoolAssumption
    <3> QED BY <1>4, <3>1, <3>2
  <2> DEFINE r == [R EXCEPT !.vmem = Null, !.pc = q]
  <2>4. /\ r \in UserType /\ r.pc = q /\ r.slot = R.slot /\ r.conn = R.conn /\ r.vmem = Null
        /\ r.stopped = R.stopped /\ r.stream = R.stream /\ r.unbound = R.unbound
    BY <1>t DEF UserType, Points
  <2>5. user' = [user EXCEPT ![u] = r]
    BY <2>2
  <2> HIDE DEF r
  <2>6. Local(u, r)
    BY <1>1, <1>t, <2>1, <2>2, <2>4 DEF Local
  <2>7. Held(u, r)
    BY <2>3, <2>4 DEF Held
  <2> QED BY <2>2, <2>3, <2>4, <2>5, <2>6, <2>7 DEF Without
<1>5. \E r : Some(r)
  <2>1. CASE Response(u)
    BY <2>1, <1>2 DEF Response, Step, At
  <2>2. CASE Bind(u)
    BY <2>2, <1>2 DEF Bind, Step, At
  <2>3. CASE CallerRestarts(u)
    BY <2>3, <1>2 DEF CallerRestarts, Step, At
  <2> HIDE DEF Some
  <2> QED BY <2>1, <2>2, <2>3, <1>3, <1>4
<1>6. PICK r : Some(r)
  BY <1>5
<1> QED BY <1>0, <1>1, <1>6 DEF Stays, Gives

\* start_receiving_data makes the session active.
LEMMA StartStays ==
    ASSUME TypeOK, LocalInv, NEW u \in Users, StartReceiving(u)
    PROVE  Stays(u)
<1> DEFINE r == [user[u] EXCEPT !.pc = "bind", !.stream = "open", !.stopped = FALSE, !.unbound = FALSE]
           t == [SlotOf(u) EXCEPT !.active = TRUE]
<1>1. user[u].pc = "start" /\ Gives(u, r, t) /\ conns' = conns
  BY DEF StartReceiving, At, Gives, SlotOf
<1>2. /\ user[u] \in UserType /\ Local(u, user[u]) /\ user[u].slot \in Slots /\ SlotOf(u) \in SlotType
      /\ conns \in [Conns -> Users \cup {Free, Lost}]
  BY <1>1, Has
<1>3. t \in SlotType /\ t.in_use = SlotOf(u).in_use /\ t.active = TRUE
  BY <1>2 DEF SlotType
<1>4. /\ r \in UserType /\ r.pc = "bind" /\ r.slot = user[u].slot /\ r.conn = user[u].conn /\ r.vmem = user[u].vmem
      /\ r.stopped = FALSE
  BY <1>2 DEF UserType, Points
<1> HIDE DEF r, t
<1>5. Local(u, r) /\ Held(u, r)
  BY <1>1, <1>2, <1>4 DEF Local, Held
<1> QED BY <1>1, <1>2, <1>3, <1>4, <1>5 DEF Stays, Without

\* The receive loop ends, for whatever reason.
LEMMA EndStays ==
    ASSUME TypeOK, LocalInv, NEW u \in Users, NEW active \in BOOLEAN, NEW wanted \in BOOLEAN,
           EndReceiving(u, active, wanted)
    PROVE  Stays(u)
<1> DEFINE t == [SlotOf(u) EXCEPT !.active = active]
<1>1. /\ user[u].pc = "loop" /\ user[u].vmem = Null /\ conns' = csp_close(conns, user[u].conn)
      /\ slots' = [slots EXCEPT ![user[u].slot] = t]
  BY DEF EndReceiving, At, SlotOf
<1>2. /\ user[u] \in UserType /\ Local(u, user[u]) /\ user[u].slot \in Slots /\ SlotOf(u) \in SlotType
      /\ conns \in [Conns -> Users \cup {Free, Lost}]
  BY <1>1, Has
<1>3. t \in SlotType /\ t.in_use = SlotOf(u).in_use
  BY <1>2 DEF SlotType
<1>4. PICK p \in {"returned", "release"} : Back(u) = [user[u] EXCEPT !.pc = p, !.conn = Null, !.stopped = FALSE]
  BY BackRecord
<1> DEFINE b == user[u].held \/ wanted
           q == IF wanted THEN "returned" ELSE p
           B == [user[u] EXCEPT !.pc = p, !.conn = Null, !.stopped = FALSE]
           r == [B EXCEPT !.held = b, !.pc = q, !.stream = "closed"]
<1>5. b \in BOOLEAN /\ q \in {"returned", "release"}
  BY Zenon
<1>6. user' = [user EXCEPT ![u] = r]
  <2>1. user' = [user EXCEPT ![u] = [B EXCEPT !.held = b, !.pc = IF wanted THEN "returned" ELSE @, !.stream = "closed"]]
    BY <1>4, Zenon DEF EndReceiving, ClosedStream
  <2> HIDE DEF b
  <2>2. B \in UserType /\ B.pc = p
    BY <1>2 DEF UserType, Points
  <2> HIDE DEF B
  <2>3. [B EXCEPT !.held = b].pc = p
    BY <1>5, <2>2 DEF UserType
  <2>4. CASE wanted
    BY <2>1, <2>4, Zenon
  <2>5. CASE ~wanted
    BY <2>1, <2>3, <2>5, Zenon
  <2> QED BY <2>4, <2>5
<1> HIDE DEF b, q
<1>7. /\ r \in UserType /\ r.pc = q /\ r.slot = user[u].slot /\ r.conn = Null /\ r.vmem = user[u].vmem
      /\ r.stream = "closed"
  <2>1. B \in UserType /\ B.slot = user[u].slot /\ B.conn = Null /\ B.vmem = user[u].vmem
    BY <1>2 DEF UserType, Points
  <2> HIDE DEF B
  <2> QED BY <1>5, <2>1 DEF UserType, Points
<1> HIDE DEF r, t, B
<1>8. Local(u, r)
  BY <1>1, <1>2, <1>5, <1>7 DEF Local
<1>9. conns' \in [Conns -> Users \cup {Free, Lost}] /\ \A h \in Conns : conns'[h] = IF h = user[u].conn THEN Free ELSE conns[h]
  <2>1. user[u].conn \in Conns \cup {Null}
    BY <1>2 DEF UserType
  <2> QED BY <2>1, <1>1, <1>2, Closing
<1>10. Held(u, r)
  BY <1>1, <1>7, <1>9, PoolAssumption DEF Held
<1> QED BY <1>1, <1>2, <1>3, <1>5, <1>6, <1>7, <1>8, <1>9, <1>10 DEF Stays, Gives, Without

----------------------------------------------------------------------------
(* The inductive invariant.                                                *)

\* Session s has no error number, or a thread that has released it will clear
\* it.
Cleaned(s) ==
    slots[s].errno = "no_err" \/ \E v \in Users : user[v].pc \in Clearing /\ user[v].slot = s

\* Strengthens NoStaleError to the sessions that are free.
CleanInv ==
    ~collided =>
        /\ \A s \in Slots : ~slots[s].in_use => Cleaned(s)
        /\ \A u \in Users : user[u].pc = "prepare" => Cleaned(user[u].slot)

Inv == TypeOK /\ LocalInv /\ ConnsAccounted /\ SlotsExclusive /\ StopHeard /\ CleanInv

\* The same of the next state.
CleanedNext(s) ==
    slots'[s].errno = "no_err" \/ \E v \in Users : user'[v].pc \in Clearing /\ user'[v].slot = s

\* A step leaves the error number of a session, and those who will clear it and
\* those who are about to read it, as they are.
SameErrno(s) ==
    /\ slots'[s].errno = slots[s].errno /\ slots'[s].in_use = slots[s].in_use
    /\ \A v \in Users : user[v].pc \in Clearing /\ user[v].slot = s
                         => user'[v].pc \in Clearing /\ user'[v].slot = s
    /\ \A v \in Users : user'[v].pc = "prepare" /\ user'[v].slot = s
                         => user[v].pc = "prepare" /\ user[v].slot = s

\* What a step must do of each session for CleanInv.
LEMMA CleanKept ==
    ASSUME Inv, ~collided, LocalInv',
           \A s \in Slots :
              \/ CleanedNext(s)
              \/ slots'[s].in_use /\ \A v \in Users : user'[v].pc = "prepare" => user'[v].slot # s
              \/ SameErrno(s)
    PROVE  CleanInv'
<1>1. ASSUME NEW s \in Slots, Cleaned(s), SameErrno(s) PROVE CleanedNext(s)
  <2>1. CASE slots[s].errno = "no_err"
    BY <1>1, <2>1 DEF SameErrno, CleanedNext
  <2>2. CASE \E v \in Users : user[v].pc \in Clearing /\ user[v].slot = s
    BY <1>1, <2>2, Zenon DEF SameErrno, CleanedNext
  <2> QED BY <1>1, <2>1, <2>2 DEF Cleaned
<1>2. ASSUME NEW s \in Slots, ~slots'[s].in_use PROVE CleanedNext(s)
  <2>1. ~slots[s].in_use => Cleaned(s)
    BY DEF Inv, CleanInv
  <2> QED BY <1>1, <1>2, <2>1, Zenon DEF SameErrno
<1>3. ASSUME NEW u \in Users, user'[u].pc = "prepare" PROVE CleanedNext(user'[u].slot)
  <2>1. user'[u].slot \in Slots
    BY <1>3 DEF LocalInv, Local
  <2>2. user[u].pc = "prepare" => Cleaned(user[u].slot)
    BY DEF Inv, CleanInv
  <2>3. PICK s \in Slots : s = user'[u].slot
    BY <2>1
  <2>4. CleanedNext(s) \/ SameErrno(s)
    BY <1>3, <2>3, Zenon
  <2>5. SameErrno(s) => Cleaned(s)
    BY <1>3, <2>2, <2>3, Zenon DEF SameErrno
  <2> QED BY <1>1, <2>3, <2>4, <2>5, Zenon
<1> QED BY <1>2, <1>3, Zenon DEF CleanInv, Cleaned, CleanedNext

\* A step of one thread on its own session leaves the sessions of the others
\* alone, and with them what the invariant says of them.
LEMMA OthersKept ==
    ASSUME Inv, ~collided, NEW u \in Users,
           user' \in [Users -> UserType],
           \A v \in Users : v # u => user'[v] = user[v],
           \A s \in Slots : s # user[u].slot => slots'[s] = slots[s],
           \A v \in Users : v # u /\ user[v].pc \notin Without => user[v].slot # user[u].slot
    PROVE  \A v \in Users : v # u =>
              /\ user'[v].pc \in {"bind", "loop"} => (slots'[user'[v].slot].active <=> ~user'[v].stopped)
<1> SUFFICES ASSUME NEW v \in Users, v # u
             PROVE  /\ user'[v].pc \in {"bind", "loop"} => (slots'[user'[v].slot].active <=> ~user'[v].stopped)
  OBVIOUS
<1>1. user'[v] = user[v] /\ Local(v, user[v])
  BY DEF Inv, LocalInv
<1>2. CASE user[v].pc \in {"bind", "loop"}
  <2>1. slots'[user'[v].slot] = SlotOf(v)
    BY <1>1, <1>2 DEF Local, Without, SlotOf
  <2>2. /\ user[v].pc \in {"bind", "loop"} => (SlotOf(v).active <=> ~user[v].stopped)
    BY DEF Inv, StopHeard
  <2> QED BY <1>1, <2>1, <2>2, Zenon
<1> QED BY <1>1, <1>2

\* A step of a caller that keeps its session (the calls between
\* dtp_acquire_session and dtp_release_session) keeps Inv.
LEMMA StaysInv ==
    ASSUME Inv, ~collided, NEW u \in Users, Stays(u),
           last_error' \in Errors, port' \in Users \cup {Free}, collided' = collided
    PROVE  Inv'
<1>1. PICK r \in UserType, t \in SlotType :
       /\ Gives(u, r, t)
       /\ Local(u, r)
       /\ user[u].pc \notin Without /\ r.pc \notin Without
       /\ r.slot = user[u].slot
       /\ t.in_use = SlotOf(u).in_use
       /\ r.pc \in {"bind", "loop"} =>
             \/ t.active = TRUE /\ r.stopped = FALSE
             \/ user[u].pc \in {"bind", "loop"} /\ t.active = SlotOf(u).active /\ r.stopped = user[u].stopped
       /\ r.pc # "prepare"
       /\ conns' \in [Conns -> Users \cup {Free, Lost}]
       /\ Held(u, r)
  BY DEF Stays
<1>2. TypeOK /\ LocalInv
  BY DEF Inv
<1>3. user[u].slot \in Slots
  BY <1>1, <1>2, Has DEF Without
<1>4. /\ user' \in [Users -> UserType] /\ user'[u] = r
      /\ \A v \in Users : v # u => user'[v] = user[v]
      /\ LocalInv'
  BY <1>1, <1>2, UserExcept DEF Gives
<1>5. /\ slots' \in [Slots -> SlotType] /\ slots'[user[u].slot] = t
      /\ \A s \in Slots : s # user[u].slot => slots'[s] = slots[s]
  BY <1>1, <1>2, <1>3, SlotExcept DEF Gives
<1>6. TypeOK'
  BY <1>1, <1>2, <1>4, <1>5 DEF TypeOK
<1>7. ConnsAccounted'
  <2> SUFFICES ASSUME NEW h \in Conns, NEW v \in Users, conns'[h] = v
               PROVE  h \in {user'[v].conn, user'[v].vmem}
    BY DEF ConnsAccounted
  <2>1. conns[h] = v => h \in {user[v].conn, user[v].vmem}
    BY DEF Inv, ConnsAccounted
  <2> QED BY <1>1, <1>4, <2>1 DEF Held
<1>8. \A v \in Users, s \in Slots : Holds(v, s)' <=> Holds(v, s)
  BY <1>1, <1>4 DEF Holds, Without
<1>9. SlotsExclusive'
  <2>1. \A s \in Slots : slots'[s].in_use = slots[s].in_use
    BY <1>1, <1>5 DEF SlotOf
  <2>2. /\ \A s \in Slots : slots[s].in_use <=> \E v \in Users : Holds(v, s)
        /\ \A s \in Slots, v, w \in Users : Holds(v, s) /\ Holds(w, s) => v = w
    BY DEF Inv, SlotsExclusive
  <2>3. \A s \in Slots : slots'[s].in_use <=> \E v \in Users : Holds(v, s)'
    BY <2>1, <2>2, <1>8, Zenon
  <2>4. \A s \in Slots, v, w \in Users : Holds(v, s)' /\ Holds(w, s)' => v = w
    BY <2>2, <1>8, Zenon
  <2> QED BY <2>3, <2>4 DEF SlotsExclusive
<1>10. \A v \in Users : v # u /\ user[v].pc \notin Without => user[v].slot # user[u].slot
  BY <1>1, <1>3 DEF Inv, SlotsExclusive, Holds, Without
<1>11. \A v \in Users : v # u =>
              /\ user'[v].pc \in {"bind", "loop"} => (slots'[user'[v].slot].active <=> ~user'[v].stopped)
  BY <1>4, <1>5, <1>10, OthersKept
<1>12. /\ user'[u].pc \in {"bind", "loop"} => (slots'[user'[u].slot].active <=> ~user'[u].stopped)
  <2>1. slots'[user'[u].slot] = t
    BY <1>1, <1>4, <1>5
  <2>2. user[u].pc \in {"bind", "loop"} => (SlotOf(u).active <=> ~user[u].stopped)
    BY DEF Inv, StopHeard
  <2> QED BY <1>1, <1>4, <2>1, <2>2, Zenon
<1>13. StopHeard'
  BY <1>11, <1>12, Zenon DEF StopHeard, SlotOf
<1>14. CleanInv'
  <2> SUFFICES ASSUME NEW s \in Slots
               PROVE  \/ slots'[s].in_use /\ \A v \in Users : user'[v].pc = "prepare" => user'[v].slot # s
                      \/ SameErrno(s)
    BY <1>4, CleanKept
  <2>1. CASE s = user[u].slot
    <3>1. slots[s].in_use
      <4>1. Holds(u, s)
        BY <1>1, <2>1 DEF Holds, Without
      <4> QED BY <4>1, Zenon DEF Inv, SlotsExclusive
    <3>2. slots'[s].in_use
      BY <1>1, <1>5, <2>1, <3>1, Zenon DEF SlotOf
    <3>3. \A v \in Users : user'[v].pc = "prepare" => user'[v].slot # s
      BY <1>1, <1>4, <1>10, <2>1 DEF Without
    <3> QED BY <3>2, <3>3
  <2>2. CASE s # user[u].slot
    <3>1. slots'[s] = slots[s]
      BY <1>5, <2>2
    <3>2. user[u].pc \notin Clearing /\ user'[u].pc # "prepare"
      BY <1>1, <1>4 DEF Without, Clearing
    <3> QED BY <1>4, <3>1, <3>2, Zenon DEF SameErrno
  <2> QED BY <2>1, <2>2
<1> QED BY <1>4, <1>6, <1>7, <1>9, <1>13, <1>14 DEF Inv

\* A step of a thread that has no session and gets none: the scan of
\* dtp_acquire_session, and dtp_release_session(NULL).
Outside(u) ==
    \E r \in UserType :
       /\ user[u].pc \in {"idle", "no_session", "null"}
       /\ user' = [user EXCEPT ![u] = r]
       /\ r.pc \in {"idle", "no_session", "null", "take"} /\ Local(u, r)
       /\ last_error' \in Errors /\ UNCHANGED <<slots, conns, port, collided>>

\* These steps are of that kind.
LEMMA AreOutside ==
    ASSUME Inv, NEW u \in Users, AcquireScan(u) \/ AcquireFails(u) \/ ReleaseNull(u)
    PROVE  ~collided /\ Outside(u)
<1>0. ~collided /\ user[u].pc \in {"idle", "no_session", "null"} /\ UNCHANGED <<slots, conns, port, collided>>
  BY DEF AcquireScan, AcquireFails, ReleaseNull, At
<1>1. user[u] \in UserType /\ Local(u, user[u]) /\ last_error \in Errors
  BY DEF Inv, TypeOK, LocalInv
<1>2. CASE AcquireScan(u)
  <2> DEFINE b == u \in VmemUsers
  <2>1. b \in BOOLEAN
    OBVIOUS
  <2>2. PICK s \in Slots : user' = [user EXCEPT ![u] = [Idle EXCEPT !.pc = "take", !.slot = s, !.held = b]]
    BY <1>2, Zenon DEF AcquireScan
  <2>3. last_error' = last_error
    BY <1>2 DEF AcquireScan
  <2> HIDE DEF b
  <2> DEFINE r == [Idle EXCEPT !.pc = "take", !.slot = s, !.held = b]
  <2>4. r \in UserType /\ r.pc = "take" /\ Local(u, r)
    BY <2>1 DEF UserType, Idle, Points, Local
  <2> HIDE DEF r
  <2> QED BY <1>0, <1>1, <2>2, <2>3, <2>4 DEF Outside, r
<1>3. CASE AcquireFails(u)
  <2> DEFINE r == [user[u] EXCEPT !.pc = "no_session"]
  <2>1. user[u].pc = "idle" /\ user' = [user EXCEPT ![u] = r] /\ last_error' = "no_more"
    BY <1>3 DEF AcquireFails, At, Step
  <2>2. /\ r \in UserType /\ r.pc = "no_session" /\ r.slot = user[u].slot /\ r.conn = user[u].conn
        /\ r.vmem = user[u].vmem /\ r.stream = user[u].stream /\ r.unbound = user[u].unbound
    BY <1>1 DEF UserType, Points
  <2> HIDE DEF r
  <2>3. Local(u, r)
    BY <1>1, <2>1, <2>2 DEF Local
  <2> QED BY <1>0, <2>1, <2>2, <2>3 DEF Outside, Errors
<1>4. CASE ReleaseNull(u)
  <2> DEFINE p == IF user[u].pc = "no_session" /\ u \notin VmemUsers THEN "null" ELSE "idle"
             r == [Idle EXCEPT !.pc = p]
  <2>1. user' = [user EXCEPT ![u] = r] /\ last_error' = "session_not_found"
    BY <1>4 DEF ReleaseNull
  <2>2. p \in {"idle", "null"}
    OBVIOUS
  <2> HIDE DEF p
  <2>3. r \in UserType /\ r.pc = p /\ Local(u, r)
    BY <2>2 DEF UserType, Idle, Points, Local
  <2> HIDE DEF r
  <2> QED BY <1>0, <2>1, <2>2, <2>3 DEF Outside, Errors
<1> QED BY <1>0, <1>2, <1>3, <1>4

\* They keep Inv.
LEMMA OutsideInv ==
    ASSUME Inv, ~collided, NEW u \in Users, Outside(u)
    PROVE  Inv'
<1>1. PICK r \in UserType :
       /\ user[u].pc \in {"idle", "no_session", "null"}
       /\ user' = [user EXCEPT ![u] = r]
       /\ r.pc \in {"idle", "no_session", "null", "take"} /\ Local(u, r)
       /\ last_error' \in Errors /\ UNCHANGED <<slots, conns, port, collided>>
  BY DEF Outside
<1>3. TypeOK /\ LocalInv
  BY DEF Inv
<1>5. /\ user' \in [Users -> UserType] /\ user'[u] = r
      /\ \A v \in Users : v # u => user'[v] = user[v]
      /\ LocalInv'
  BY <1>1, <1>3, UserExcept
<1>6. TypeOK'
  BY <1>1, <1>3, <1>5 DEF TypeOK
<1>7. ConnsAccounted'
  <2>1. user[u].conn = Null /\ user[u].vmem = Null
    BY <1>1, <1>3 DEF LocalInv, Local
  <2>2. \A h \in Conns : conns[h] # u
    BY <2>1, PoolAssumption DEF Inv, ConnsAccounted
  <2> QED BY <1>1, <1>5, <2>2 DEF Inv, ConnsAccounted
<1>8. \A v \in Users, q \in Slots : Holds(v, q)' <=> Holds(v, q)
  BY <1>1, <1>5 DEF Holds
<1>9. SlotsExclusive'
  <2>1. /\ \A q \in Slots : slots[q].in_use <=> \E v \in Users : Holds(v, q)
        /\ \A q \in Slots, v, w \in Users : Holds(v, q) /\ Holds(w, q) => v = w
    BY DEF Inv, SlotsExclusive
  <2>2. slots' = slots
    BY <1>1
  <2> QED BY <2>1, <2>2, <1>8, Zenon DEF SlotsExclusive
<1>10. ASSUME NEW v \in Users
       PROVE  user'[v].pc \in {"bind", "loop"} => (slots'[user'[v].slot].active <=> ~user'[v].stopped)
  <2>1. CASE v = u
    BY <1>1, <1>5, <2>1
  <2>2. CASE v # u
    <3>1. user'[v] = user[v] /\ slots' = slots
      BY <1>1, <1>5, <2>2
    <3>2. user[v].pc \in {"bind", "loop"} => (SlotOf(v).active <=> ~user[v].stopped)
      BY DEF Inv, StopHeard
    <3> QED BY <3>1, <3>2, Zenon DEF SlotOf
  <2> QED BY <2>1, <2>2
<1>11. StopHeard'
  BY <1>10, Zenon DEF StopHeard, SlotOf
<1>12. CleanInv'
  <2>1. user[u].pc \notin Clearing /\ user'[u].pc # "prepare" /\ slots' = slots
    BY <1>1, <1>5 DEF Clearing
  <2>2. \A q \in Slots : SameErrno(q)
    BY <1>5, <2>1, Zenon DEF SameErrno
  <2> QED BY <1>5, <2>2, CleanKept
<1> QED BY <1>5, <1>6, <1>7, <1>9, <1>11, <1>12 DEF Inv

\* A thread takes the session that it found, or collides with another.
LEMMA TakeInv ==
    ASSUME Inv, NEW u \in Users, AcquireTake(u)
    PROVE  Inv'
<1> DEFINE r == [user[u] EXCEPT !.pc = "prepare"]
           t == [SlotOf(u) EXCEPT !.in_use = TRUE, !.active = FALSE, !.session_id = "none"]
<1>1. /\ ~collided /\ user[u].pc = "take" /\ user' = [user EXCEPT ![u] = r]
      /\ slots' = [slots EXCEPT ![user[u].slot] = t]
      /\ last_error' = "no_err" /\ UNCHANGED <<conns, port>>
  BY DEF AcquireTake, At, Step, SlotOf
<1>c. collided' \in BOOLEAN /\ (~collided' => ~SlotOf(u).in_use)
  <2>1. collided' = (collided \/ SlotOf(u).in_use)
    BY DEF AcquireTake
  <2> QED BY <2>1, Zenon
<1>2. TypeOK /\ LocalInv
  BY DEF Inv
<1>3. user[u] \in UserType /\ Local(u, user[u]) /\ user[u].slot \in Slots /\ SlotOf(u) \in SlotType
  BY <1>1, <1>2, Has
<1>4. t \in SlotType /\ t.in_use = TRUE
  BY <1>3 DEF SlotType
<1>e. t.errno = SlotOf(u).errno
  BY <1>3 DEF SlotType
<1>5. /\ r \in UserType /\ r.pc = "prepare" /\ r.slot = user[u].slot /\ r.conn = user[u].conn /\ r.vmem = user[u].vmem
      /\ r.stream = user[u].stream /\ r.unbound = user[u].unbound
  BY <1>3 DEF UserType, Points
<1> HIDE DEF r, t
<1>6. Local(u, r)
  BY <1>1, <1>3, <1>5 DEF Local
<1>7. /\ user' \in [Users -> UserType] /\ user'[u] = r
      /\ \A v \in Users : v # u => user'[v] = user[v]
      /\ LocalInv'
  BY <1>1, <1>2, <1>5, <1>6, UserExcept
<1>8. /\ slots' \in [Slots -> SlotType] /\ slots'[user[u].slot] = t
      /\ \A q \in Slots : q # user[u].slot => slots'[q] = slots[q]
  BY <1>1, <1>2, <1>3, <1>4, SlotExcept
<1>9. TypeOK'
  BY <1>1, <1>2, <1>c, <1>7, <1>8 DEF TypeOK, Errors
<1>10. ConnsAccounted'
  BY <1>1, <1>5, <1>7 DEF Inv, ConnsAccounted
<1>11. ASSUME ~collided'
       PROVE  /\ \A q \in Slots : slots'[q].in_use <=> \E v \in Users : Holds(v, q)'
              /\ \A q \in Slots, v, w \in Users : Holds(v, q)' /\ Holds(w, q)' => v = w
              /\ \A v \in Users : v # u /\ user[v].pc \notin Without => user[v].slot # user[u].slot
  <2>1. /\ \A q \in Slots : slots[q].in_use <=> \E v \in Users : Holds(v, q)
        /\ \A q \in Slots, v, w \in Users : Holds(v, q) /\ Holds(w, q) => v = w
    BY <1>1 DEF Inv, SlotsExclusive
  <2>2. \A v \in Users : ~Holds(v, user[u].slot)
    BY <1>3, <1>11, <1>c, <2>1, Zenon DEF SlotOf
  <2>3. \A q \in Slots : (Holds(u, q)' <=> q = user[u].slot) /\ ~Holds(u, q)
    BY <1>1, <1>5, <1>7 DEF Holds
  <2>4. \A v \in Users : v # u => \A q \in Slots : Holds(v, q)' <=> Holds(v, q)
    BY <1>7 DEF Holds
  <2>5. ASSUME NEW q \in Slots
        PROVE  slots'[q].in_use <=> \E v \in Users : Holds(v, q)'
    <3>1. CASE q = user[u].slot
      <4>1. slots'[q].in_use
        BY <1>4, <1>8, <3>1, Zenon
      <4>2. Holds(u, q)'
        BY <3>1, <2>3
      <4> QED BY <4>1, <4>2
    <3>2. CASE q # user[u].slot
      <4>1. slots'[q] = slots[q]
        BY <1>8, <3>2
      <4>2. \A v \in Users : Holds(v, q)' <=> Holds(v, q)
        BY <2>3, <2>4, <3>2, Zenon
      <4> QED BY <4>1, <4>2, <2>1, Zenon
    <3> QED BY <3>1, <3>2
  <2>6. ASSUME NEW q \in Slots, NEW v \in Users, NEW w \in Users, Holds(v, q)', Holds(w, q)'
        PROVE  v = w
    <3>1. CASE q = user[u].slot
      BY <3>1, <2>2, <2>4, <2>6
    <3>2. CASE q # user[u].slot
      BY <3>2, <2>1, <2>3, <2>4, <2>6
    <3> QED BY <3>1, <3>2
  <2>7. \A v \in Users : v # u /\ user[v].pc \notin Without => user[v].slot # user[u].slot
    BY <2>2 DEF Holds, Without
  <2> QED BY <2>5, <2>6, <2>7
<1>12. SlotsExclusive'
  BY <1>11, Zenon DEF SlotsExclusive
<1>13. ASSUME ~collided', NEW v \in Users
       PROVE  /\ user'[v].pc \in {"bind", "loop"} => (slots'[user'[v].slot].active <=> ~user'[v].stopped)
  <2>1. CASE v = u
    BY <2>1, <1>5, <1>7
  <2>2. CASE v # u
    BY <2>2, <1>1, <1>7, <1>8, <1>11, <1>13, OthersKept
  <2> QED BY <2>1, <2>2
<1>14. StopHeard'
  BY <1>13, Zenon DEF StopHeard, SlotOf
<1>15. ASSUME ~collided' PROVE CleanInv'
  <2> SUFFICES ASSUME NEW s \in Slots PROVE CleanedNext(s) \/ SameErrno(s)
    BY <1>1, <1>7, CleanKept
  <2>1. user[u].pc \notin Clearing /\ user'[u].slot = user[u].slot
    BY <1>1, <1>5, <1>7 DEF Clearing
  <2>2. CASE s = user[u].slot
    <3>1. Cleaned(s)
      BY <1>1, <1>15, <1>c, <2>2, Zenon DEF Inv, CleanInv, SlotOf
    <3>2. slots'[s].errno = slots[s].errno
      BY <1>e, <1>8, <2>2 DEF SlotOf
    <3> QED BY <1>7, <2>1, <3>1, <3>2, Zenon DEF Cleaned, CleanedNext
  <2>3. CASE s # user[u].slot
    <3>1. slots'[s] = slots[s] /\ user'[u].slot # s
      BY <1>8, <2>1, <2>3
    <3> QED BY <1>7, <2>1, <3>1, Zenon DEF SameErrno
  <2> QED BY <2>2, <2>3
<1>16. CleanInv'
  BY <1>15, Zenon DEF CleanInv
<1> QED BY <1>7, <1>9, <1>10, <1>12, <1>14, <1>16 DEF Inv

\* dtp_release_session, by the thread that has the session.
LEMMA ReleaseInv ==
    ASSUME Inv, ~collided, NEW u \in Users, NEW pc \in Clearing, Release(u, pc),
           user[u].pc \in {"exhausted", "release", "returned"}
    PROVE  Inv'
<1> DEFINE t == [SlotOf(u) EXCEPT !.in_use = FALSE]
           r == [Idle EXCEPT !.pc = pc, !.slot = user[u].slot]
<1>1. /\ user' = [user EXCEPT ![u] = r] /\ slots' = [slots EXCEPT ![user[u].slot] = t]
      /\ conns' = csp_close(conns, SlotOf(u).conn)
      /\ last_error' = SlotOf(u).errno /\ UNCHANGED <<port, collided>>
  BY DEF Release, SlotOf
<1>2. TypeOK /\ LocalInv
  BY DEF Inv
<1>3. /\ user[u] \in UserType /\ Local(u, user[u]) /\ user[u].slot \in Slots /\ SlotOf(u) \in SlotType
      /\ conns \in [Conns -> Users \cup {Free, Lost}]
  BY <1>2, Has
<1>4. t \in SlotType /\ t.in_use = FALSE /\ last_error' \in Errors
  BY <1>1, <1>3 DEF SlotType
<1>5. r \in UserType /\ r.pc = pc /\ r.slot = user[u].slot /\ Local(u, r)
  BY <1>3 DEF UserType, Idle, Points, Local, Clearing
<1> HIDE DEF t, r
<1>6. /\ user' \in [Users -> UserType] /\ user'[u] = r
      /\ \A v \in Users : v # u => user'[v] = user[v]
      /\ LocalInv'
  BY <1>1, <1>2, <1>5, UserExcept
<1>7. /\ slots' \in [Slots -> SlotType] /\ slots'[user[u].slot] = t
      /\ \A q \in Slots : q # user[u].slot => slots'[q] = slots[q]
  BY <1>1, <1>2, <1>3, <1>4, SlotExcept
<1>8. /\ conns' \in [Conns -> Users \cup {Free, Lost}]
      /\ \A h \in Conns : conns'[h] = IF h = SlotOf(u).conn THEN Free ELSE conns[h]
  <2>1. SlotOf(u).conn \in Conns \cup {Null}
    BY <1>3 DEF SlotType
  <2> QED BY <2>1, <1>1, <1>3, Closing
<1>9. TypeOK'
  BY <1>1, <1>2, <1>4, <1>6, <1>7, <1>8 DEF TypeOK
<1>10. ConnsAccounted'
  <2>1. user[u].conn = Null /\ user[u].vmem = Null
    BY <1>3 DEF Local
  <2>2. \A h \in Conns : conns[h] # u
    BY <2>1, PoolAssumption DEF Inv, ConnsAccounted
  <2>3. \A h \in Conns : conns'[h] \in Users => conns'[h] = conns[h]
    BY <1>8, PoolAssumption
  <2> QED BY <1>6, <2>2, <2>3 DEF Inv, ConnsAccounted
<1>11. /\ \A q \in Slots : slots[q].in_use <=> \E v \in Users : Holds(v, q)
       /\ \A q \in Slots, v, w \in Users : Holds(v, q) /\ Holds(w, q) => v = w
  BY DEF Inv, SlotsExclusive
<1>12. Holds(u, user[u].slot) /\ \A q \in Slots : ~Holds(u, q)' /\ (Holds(u, q) => q = user[u].slot)
  BY <1>5, <1>6 DEF Holds, Clearing
<1>13. \A v \in Users : v # u => \A q \in Slots : Holds(v, q)' <=> Holds(v, q)
  BY <1>6 DEF Holds
<1>14. ASSUME NEW q \in Slots
       PROVE  slots'[q].in_use <=> \E v \in Users : Holds(v, q)'
  <2>1. CASE q = user[u].slot
    <3>1. ~slots'[q].in_use
      BY <1>4, <1>7, <2>1, Zenon
    <3>2. \A v \in Users : ~Holds(v, q)'
      BY <1>11, <1>12, <1>13, <2>1
    <3> QED BY <3>1, <3>2
  <2>2. CASE q # user[u].slot
    <3>1. slots'[q] = slots[q]
      BY <1>7, <2>2
    <3>2. \A v \in Users : Holds(v, q)' <=> Holds(v, q)
      BY <1>12, <1>13, <2>2, Zenon
    <3> QED BY <3>1, <3>2, <1>11, Zenon
  <2> QED BY <2>1, <2>2
<1>15. ASSUME NEW q \in Slots, NEW v \in Users, NEW w \in Users, Holds(v, q)', Holds(w, q)'
       PROVE  v = w
  BY <1>11, <1>12, <1>13, <1>15
<1>16. SlotsExclusive'
  BY <1>14, <1>15, Zenon DEF SlotsExclusive
<1>17. \A v \in Users : v # u /\ user[v].pc \notin Without => user[v].slot # user[u].slot
  BY <1>3, <1>11, <1>12 DEF Holds, Without
<1>18. ASSUME NEW v \in Users
       PROVE  /\ user'[v].pc \in {"bind", "loop"} => (slots'[user'[v].slot].active <=> ~user'[v].stopped)
  <2>1. CASE v = u
    BY <2>1, <1>5, <1>6 DEF Clearing
  <2>2. CASE v # u
    BY <2>2, <1>1, <1>6, <1>7, <1>17, OthersKept
  <2> QED BY <2>1, <2>2
<1>19. StopHeard'
  BY <1>18, Zenon DEF StopHeard, SlotOf
<1>20. CleanInv'
  <2> SUFFICES ASSUME NEW s \in Slots PROVE CleanedNext(s) \/ SameErrno(s)
    BY <1>6, CleanKept
  <2>1. CASE s = user[u].slot
    BY <1>5, <1>6, <2>1, Zenon DEF CleanedNext
  <2>2. CASE s # user[u].slot
    <3>1. slots'[s] = slots[s] /\ user'[u].pc # "prepare"
      BY <1>5, <1>6, <1>7, <2>2 DEF Clearing
    <3> QED BY <1>6, <2>2, <3>1, Zenon DEF SameErrno
  <2> QED BY <2>1, <2>2
<1> QED BY <1>6, <1>9, <1>10, <1>16, <1>19, <1>20 DEF Inv

\* The error number of a session is cleared after the session was given back,
\* and with nothing else of it.
LEMMA ClearInv ==
    ASSUME Inv, NEW u \in Users, ClearErrno(u)
    PROVE  Inv'
<1> DEFINE t == [SlotOf(u) EXCEPT !.errno = "no_err"]
           p == IF user[u].pc = "clear" THEN "idle" ELSE "null"
           r == [Idle EXCEPT !.pc = p]
<1>1. /\ ~collided /\ user[u].pc \in Clearing
      /\ user' = [user EXCEPT ![u] = r] /\ slots' = [slots EXCEPT ![user[u].slot] = t]
      /\ UNCHANGED <<last_error, conns, port, collided>>
  BY DEF ClearErrno, At, Clearing, SlotOf
<1>2. TypeOK /\ LocalInv
  BY DEF Inv
<1>3. user[u] \in UserType /\ Local(u, user[u]) /\ user[u].slot \in Slots /\ SlotOf(u) \in SlotType
  BY <1>1, <1>2, Has DEF Clearing
<1>4. /\ t \in SlotType /\ t.errno = "no_err"
      /\ t.in_use = SlotOf(u).in_use /\ t.active = SlotOf(u).active
  BY <1>3 DEF SlotType, Errors
<1>p. p \in {"idle", "null"}
  OBVIOUS
<1> HIDE DEF t, p
<1>5. r \in UserType /\ r.pc = p /\ Local(u, r)
  BY <1>p DEF UserType, Idle, Points, Local
<1> HIDE DEF r
<1>6. /\ user' \in [Users -> UserType] /\ user'[u] = r
      /\ \A v \in Users : v # u => user'[v] = user[v]
      /\ LocalInv'
  BY <1>1, <1>2, <1>5, UserExcept
<1>7. /\ slots' \in [Slots -> SlotType] /\ slots'[user[u].slot] = t
      /\ \A q \in Slots : q # user[u].slot => slots'[q] = slots[q]
  BY <1>1, <1>2, <1>3, <1>4, SlotExcept
<1>8. \A q \in Slots : slots'[q].in_use = slots[q].in_use /\ slots'[q].active = slots[q].active
  <2> SUFFICES ASSUME NEW q \in Slots
               PROVE  slots'[q].in_use = slots[q].in_use /\ slots'[q].active = slots[q].active
    OBVIOUS
  <2>1. CASE q = user[u].slot
    BY <1>4, <1>7, <2>1, Zenon DEF SlotOf
  <2>2. CASE q # user[u].slot
    BY <1>7, <2>2, Zenon
  <2> QED BY <2>1, <2>2
<1>9. TypeOK'
  BY <1>1, <1>2, <1>6, <1>7 DEF TypeOK
<1>10. ConnsAccounted'
  <2>1. user[u].conn = Null /\ user[u].vmem = Null
    BY <1>1, <1>3 DEF Local, Clearing
  <2>2. \A h \in Conns : conns[h] # u
    BY <2>1, PoolAssumption DEF Inv, ConnsAccounted
  <2> QED BY <1>1, <1>6, <2>2 DEF Inv, ConnsAccounted
<1>11. \A v \in Users, q \in Slots : Holds(v, q)' <=> Holds(v, q)
  BY <1>1, <1>p, <1>5, <1>6 DEF Holds, Clearing
<1>12. SlotsExclusive'
  <2>1. /\ \A q \in Slots : slots[q].in_use <=> \E v \in Users : Holds(v, q)
        /\ \A q \in Slots, v, w \in Users : Holds(v, q) /\ Holds(w, q) => v = w
    BY <1>1 DEF Inv, SlotsExclusive
  <2> QED BY <2>1, <1>8, <1>11, Zenon DEF SlotsExclusive
<1>13. ASSUME NEW v \in Users
       PROVE  user'[v].pc \in {"bind", "loop"} => (slots'[user'[v].slot].active <=> ~user'[v].stopped)
  <2>1. CASE v = u
    BY <1>p, <1>5, <1>6, <2>1
  <2>2. CASE v # u
    <3>1. user'[v] = user[v] /\ (user[v].pc \in {"bind", "loop"} => user[v].slot \in Slots)
      BY <1>2, <1>6, <2>2 DEF LocalInv, Local
    <3>2. user[v].pc \in {"bind", "loop"} => (SlotOf(v).active <=> ~user[v].stopped)
      BY <1>1 DEF Inv, StopHeard
    <3> QED BY <1>8, <3>1, <3>2, Zenon DEF SlotOf
  <2> QED BY <2>1, <2>2
<1>14. StopHeard'
  BY <1>13, Zenon DEF StopHeard, SlotOf
<1>15. CleanInv'
  <2> SUFFICES ASSUME NEW s \in Slots PROVE CleanedNext(s) \/ SameErrno(s)
    BY <1>1, <1>6, CleanKept
  <2>1. CASE s = user[u].slot
    BY <1>4, <1>7, <2>1, Zenon DEF CleanedNext
  <2>2. CASE s # user[u].slot
    <3>1. slots'[s] = slots[s] /\ user'[u].pc # "prepare"
      BY <1>p, <1>5, <1>6, <1>7, <2>2
    <3> QED BY <1>6, <2>2, <3>1, Zenon DEF SameErrno
  <2> QED BY <2>1, <2>2
<1> QED BY <1>6, <1>9, <1>10, <1>12, <1>14, <1>15 DEF Inv

\* dtp_stop_transfer: the sessions it names become inactive, and nothing else
\* changes.
LEMMA StopInv ==
    ASSUME Inv, NEW id \in Ids \cup {"all"}, dtp_stop_transfer(id)
    PROVE  Inv'
<1>1. ~collided /\ UNCHANGED <<last_error, conns, port, collided>>
  BY DEF dtp_stop_transfer
<1>2. TypeOK /\ LocalInv
  BY DEF Inv
<1>3. slots \in [Slots -> SlotType] /\ user \in [Users -> UserType]
  BY <1>2 DEF TypeOK
<1>4. /\ slots' = [s \in Slots |-> IF Named(s, id) THEN [slots[s] EXCEPT !.active = FALSE] ELSE slots[s]]
      /\ user' = [u \in Users |->
                     IF user[u].pc \in {"bind", "loop"} /\ id \in {"all", SlotOf(u).session_id}
                     THEN [user[u] EXCEPT !.stopped = TRUE] ELSE user[u]]
  BY DEF dtp_stop_transfer
<1>5. ASSUME NEW s \in Slots
      PROVE  /\ slots'[s] \in SlotType /\ slots'[s].in_use = slots[s].in_use
             /\ slots'[s].errno = slots[s].errno
             /\ Named(s, id) => slots'[s].active = FALSE
             /\ ~Named(s, id) => slots'[s] = slots[s]
  <2>1. slots[s] \in SlotType
    BY <1>3
  <2>2. CASE Named(s, id)
    <3> DEFINE t == [slots[s] EXCEPT !.active = FALSE]
    <3>1. t \in SlotType /\ t.in_use = slots[s].in_use /\ t.errno = slots[s].errno /\ t.active = FALSE
      BY <2>1 DEF SlotType
    <3>2. slots'[s] = t
      BY <1>4, <2>2
    <3> QED BY <2>2, <3>1, <3>2
  <2>3. CASE ~Named(s, id)
    <3>1. slots'[s] = slots[s]
      BY <1>4, <2>3
    <3> QED BY <2>1, <2>3, <3>1
  <2> QED BY <2>2, <2>3
<1>6. ASSUME NEW u \in Users
      PROVE  /\ user'[u] \in UserType /\ user'[u].pc = user[u].pc /\ user'[u].slot = user[u].slot
             /\ user'[u].conn = user[u].conn /\ user'[u].vmem = user[u].vmem
             /\ user'[u].stream = user[u].stream /\ user'[u].unbound = user[u].unbound
             /\ user[u].pc \in {"bind", "loop"} /\ id \in {"all", SlotOf(u).session_id} => user'[u].stopped = TRUE
             /\ ~(user[u].pc \in {"bind", "loop"} /\ id \in {"all", SlotOf(u).session_id}) => user'[u] = user[u]
  <2>1. user[u] \in UserType
    BY <1>3
  <2>2. CASE user[u].pc \in {"bind", "loop"} /\ id \in {"all", SlotOf(u).session_id}
    <3> DEFINE r == [user[u] EXCEPT !.stopped = TRUE]
    <3>1. /\ r \in UserType /\ r.pc = user[u].pc /\ r.slot = user[u].slot /\ r.conn = user[u].conn
          /\ r.vmem = user[u].vmem /\ r.stream = user[u].stream /\ r.unbound = user[u].unbound /\ r.stopped = TRUE
      BY <2>1 DEF UserType
    <3>2. user'[u] = r
      BY <1>4, <2>2
    <3> QED BY <2>2, <3>1, <3>2
  <2>3. CASE ~(user[u].pc \in {"bind", "loop"} /\ id \in {"all", SlotOf(u).session_id})
    <3>1. user'[u] = user[u]
      BY <1>4, <2>3
    <3> QED BY <2>1, <2>3, <3>1
  <2> QED BY <2>2, <2>3
<1>7. slots' \in [Slots -> SlotType] /\ user' \in [Users -> UserType]
  BY <1>4, <1>5, <1>6
<1>8. TypeOK' /\ LocalInv' /\ ConnsAccounted'
  <2>1. TypeOK'
    BY <1>1, <1>2, <1>7 DEF TypeOK
  <2>2. LocalInv'
    <3> SUFFICES ASSUME NEW u \in Users PROVE Local(u, user[u])'
      BY DEF LocalInv
    <3>1. Local(u, user[u])
      BY <1>2 DEF LocalInv
    <3> QED BY <1>6, <3>1 DEF Local
  <2>3. ConnsAccounted'
    BY <1>1, <1>6 DEF Inv, ConnsAccounted
  <2> QED BY <2>1, <2>2, <2>3
<1>9. /\ \A s \in Slots : slots[s].in_use <=> \E u \in Users : Holds(u, s)
      /\ \A s \in Slots, u, v \in Users : Holds(u, s) /\ Holds(v, s) => u = v
  BY <1>1 DEF Inv, SlotsExclusive
<1>10. \A u \in Users, s \in Slots : Holds(u, s)' <=> Holds(u, s)
  BY <1>6 DEF Holds
<1>11. SlotsExclusive'
  <2>1. \A s \in Slots : slots'[s].in_use <=> \E u \in Users : Holds(u, s)'
    BY <1>5, <1>9, <1>10, Zenon
  <2> QED BY <2>1, <1>9, <1>10, Zenon DEF SlotsExclusive
<1>12. ASSUME NEW u \in Users
       PROVE  /\ user'[u].pc \in {"bind", "loop"} => (slots'[user'[u].slot].active <=> ~user'[u].stopped)
  <2>1. /\ user[u].pc \in {"bind", "loop"} => (SlotOf(u).active <=> ~user[u].stopped)
    BY <1>1 DEF Inv, StopHeard
  <2>2. CASE user[u].pc \in {"bind", "loop"}
    <3>1. user[u].slot \in Slots
      BY <1>2, <2>2, Has
    <3>2. SlotOf(u).in_use
      <4>1. Holds(u, user[u].slot)
        BY <2>2 DEF Holds
      <4> QED BY <3>1, <4>1, <1>9, Zenon DEF SlotOf
    <3>3. Named(user[u].slot, id) <=> id \in {"all", SlotOf(u).session_id}
      BY <3>2, Zenon DEF Named, SlotOf
    <3>4. CASE user[u].pc \in {"bind", "loop"} /\ id \in {"all", SlotOf(u).session_id}
      <4>1. user'[u].stopped = TRUE /\ slots'[user'[u].slot].active = FALSE
        BY <1>5, <1>6, <3>1, <3>3, <3>4
      <4> QED BY <4>1, Zenon
    <3>5. CASE user[u].pc \in {"bind", "loop"} /\ id \notin {"all", SlotOf(u).session_id}
      <4>1. user'[u] = user[u] /\ slots'[user[u].slot] = SlotOf(u)
        BY <1>5, <1>6, <3>1, <3>3, <3>5 DEF SlotOf
      <4> QED BY <4>1, <2>1, Zenon
    <3> QED BY <2>2, <3>4, <3>5
  <2> QED BY <1>6, <2>2
<1>13. StopHeard'
  BY <1>12, Zenon DEF StopHeard, SlotOf
<1>14. CleanInv'
  <2>1. \A s \in Slots : SameErrno(s)
    BY <1>5, <1>6, Zenon DEF SameErrno
  <2> QED BY <1>1, <1>8, <2>1, CleanKept
<1> QED BY <1>8, <1>11, <1>13, <1>14 DEF Inv

----------------------------------------------------------------------------
(* The theorems.                                                           *)

\* No slot is taken and no connection is open before the first call.
LEMMA InvInit == Init => Inv
<1> SUFFICES ASSUME Init PROVE Inv
  OBVIOUS
<1> DEFINE t == [in_use |-> FALSE, active |-> FALSE, errno |-> "no_err", conn |-> Null, session_id |-> "none"]
<1>1. t \in SlotType /\ t.in_use = FALSE /\ t.errno = "no_err" /\ Idle \in UserType /\ Idle.pc = "idle" /\ Idle.conn = Null
      /\ Idle.vmem = Null /\ Idle.stream = "closed"
  BY DEF SlotType, Errors, Idle, UserType, Points
<1> HIDE DEF t
<1>2. /\ slots = [s \in Slots |-> t] /\ user = [u \in Users |-> Idle] /\ last_error = "no_err"
      /\ conns = [h \in Conns |-> Free] /\ port = Free /\ collided = FALSE
  BY DEF Init, t
<1>3. TypeOK
  BY <1>1, <1>2 DEF TypeOK, Errors
<1>4. LocalInv /\ ConnsAccounted
  BY <1>1, <1>2, PoolAssumption DEF LocalInv, Local, ConnsAccounted
<1>5. \A s \in Slots : ~slots[s].in_use /\ \A u \in Users : ~Holds(u, s)
  <2>1. \A s \in Slots : slots[s] = t
    BY <1>2
  <2>2. \A s \in Slots, u \in Users : ~Holds(u, s)
    BY <1>1, <1>2 DEF Holds
  <2> QED BY <1>1, <2>1, <2>2, Zenon
<1>6. SlotsExclusive
  BY <1>5, Zenon DEF SlotsExclusive
<1>7. StopHeard /\ CleanInv
  <2>1. \A s \in Slots : slots[s].errno = "no_err"
    BY <1>1, <1>2
  <2>2. \A u \in Users : user[u].pc = "idle"
    BY <1>1, <1>2
  <2> QED BY <2>1, <2>2 DEF StopHeard, CleanInv, Cleaned
<1> QED BY <1>3, <1>4, <1>6, <1>7 DEF Inv

\* A step releases a session only at the end of a call, or of a preparation
\* that found it exhausted.
Releases(u) ==
    /\ user[u].pc \in {"exhausted", "release", "returned"}
    /\ \E pc \in Clearing : Release(u, pc)

\* Every step is one of these.
LEMMA Steps ==
    ASSUME Inv, Next
    PROVE  /\ ~collided
           /\ \/ /\ \E u \in Users : Stays(u)
                 /\ last_error' \in Errors /\ port' \in Users \cup {Free} /\ collided' = collided
              \/ \E u \in Users : Outside(u) \/ AcquireTake(u) \/ Releases(u) \/ ClearErrno(u)
              \/ \E id \in Ids \cup {"all"} : dtp_stop_transfer(id)
<1>0. TypeOK /\ LocalInv /\ last_error \in Errors /\ port \in Users \cup {Free}
  BY DEF Inv, TypeOK
<1> DEFINE Kept == last_error' \in Errors /\ port' \in Users \cup {Free} /\ collided' = collided
<1>1. ASSUME NEW u \in Users, (\E no_meta \in BOOLEAN : Prepare(u, no_meta)) \/ PrepareExhausted(u)
      PROVE  ~collided /\ Stays(u) /\ Kept
  BY <1>0, <1>1, PrepareStays DEF Prepare, PrepareExhausted, At
<1>2. ASSUME NEW u \in Users, NEW h \in Conns, Connect(u, h) \/ VmemConnect(u, h)
      PROVE  ~collided /\ Stays(u) /\ Kept
  BY <1>0, <1>2, ConnectStays DEF Connect, VmemConnect, At
<1>3. ASSUME NEW u \in Users, NEW active \in BOOLEAN, NEW wanted \in BOOLEAN, EndReceiving(u, active, wanted)
      PROVE  ~collided /\ Stays(u) /\ Kept
  <2>1. ~collided /\ Kept
    BY <1>0, <1>3 DEF EndReceiving, At
  <2> QED BY <1>0, <1>3, <2>1, EndStays
<1>4. ASSUME NEW u \in Users, ConnectFails(u) \/ RequestFails(u) \/ NoResponse(u) \/ BindFails(u)
      PROVE  ~collided /\ Stays(u) /\ Kept
  <2>1. /\ ~collided /\ user[u].pc \in {"prepared", "request", "bind"}
        /\ user[u].pc = "prepared" => u \notin VmemUsers
        /\ TransferFails(u, "failed") \/ TransferFails(u, SlotOf(u).errno)
    BY <1>4 DEF ConnectFails, RequestFails, NoResponse, BindFails, At
  <2>2. PICK e \in Errors : TransferFails(u, e)
    <3>1. SlotOf(u).errno \in Errors
      BY <1>0, <2>1, Has DEF SlotType
    <3> QED BY <2>1, <3>1 DEF Errors
  <2>3. Stays(u)
    BY <1>0, <2>1, <2>2, FailStays
  <2> QED BY <1>0, <2>1, <2>2, <2>3 DEF TransferFails
<1>5. ASSUME NEW u \in Users,
             \/ Response(u) \/ VmemConnectFails(u) \/ VmemSend(u) \/ VmemNoBuffer(u)
             \/ Bind(u) \/ CallerRestarts(u)
      PROVE  ~collided /\ Stays(u) /\ Kept
  <2>1. ~collided /\ Kept
    BY <1>0, <1>5 DEF Response, VmemConnectFails, VmemSend, VmemNoBuffer, Bind, CallerRestarts, At
  <2> QED BY <1>0, <1>5, <2>1, QuietStays
<1>6. ASSUME NEW u \in Users, StartReceiving(u)
      PROVE  ~collided /\ Stays(u) /\ Kept
  BY <1>0, <1>6, StartStays DEF StartReceiving, At
<1>7. ASSUME NEW u \in Users, ReleaseExhausted(u) \/ ReleaseSession(u)
      PROVE  ~collided /\ Releases(u)
  <2>1. ~collided /\ user[u].pc \in {"exhausted", "release", "returned"}
    BY <1>7 DEF ReleaseExhausted, ReleaseSession, At
  <2>2. \E pc \in Clearing : Release(u, pc)
    BY <1>7 DEF ReleaseExhausted, ReleaseSession, Clearing
  <2> QED BY <2>1, <2>2 DEF Releases
<1>8. ASSUME NEW u \in Users, AcquireScan(u) \/ AcquireFails(u) \/ ReleaseNull(u)
      PROVE  ~collided /\ Outside(u)
  BY <1>8, AreOutside
<1>9. ASSUME NEW u \in Users, AcquireTake(u) \/ ClearErrno(u)
      PROVE  ~collided
  BY <1>9 DEF ClearErrno, AcquireTake, At
<1>10. ASSUME NEW id \in Ids \cup {"all"}, dtp_stop_transfer(id)
       PROVE  ~collided
  BY <1>10 DEF dtp_stop_transfer
<1> HIDE DEF Kept
<1>11. CASE \E u \in Users, no_meta \in BOOLEAN : Prepare(u, no_meta)
  BY <1>11, <1>1 DEF Kept
<1>12. CASE \E u \in Users, h \in Conns : Connect(u, h) \/ VmemConnect(u, h)
  BY <1>12, <1>2 DEF Kept
<1>13. CASE \E u \in Users, active, wanted \in BOOLEAN : EndReceiving(u, active, wanted)
  BY <1>13, <1>3 DEF Kept
<1>14. CASE \E id \in Ids \cup {"all"} : dtp_stop_transfer(id)
  BY <1>14, <1>10
<1>15. ASSUME NEW u \in Users,
              \/ AcquireScan(u) \/ AcquireFails(u) \/ AcquireTake(u)
              \/ PrepareExhausted(u) \/ ReleaseExhausted(u)
              \/ ConnectFails(u) \/ RequestFails(u) \/ Response(u) \/ NoResponse(u)
              \/ VmemConnectFails(u) \/ VmemSend(u) \/ VmemNoBuffer(u)
              \/ StartReceiving(u) \/ Bind(u) \/ BindFails(u)
              \/ ReleaseSession(u) \/ ClearErrno(u) \/ ReleaseNull(u) \/ CallerRestarts(u)
       PROVE  /\ ~collided
              /\ \/ Stays(u) /\ Kept
                 \/ Outside(u) \/ AcquireTake(u) \/ Releases(u) \/ ClearErrno(u)
  BY <1>15, <1>1, <1>4, <1>5, <1>6, <1>7, <1>8, <1>9
<1> QED BY <1>11, <1>12, <1>13, <1>14, <1>15 DEF Next, Kept

\* Every operation on the pool keeps Inv, so the properties it implies hold
\* under every interleaving of the callers.
LEMMA InvNext == Inv /\ [Next]_vars => Inv'
<1>1. ASSUME Inv, Next PROVE Inv'
  <2>1. ~collided
    BY <1>1, Steps
  <2>2. CASE \E u \in Users : Stays(u) /\ last_error' \in Errors /\ port' \in Users \cup {Free} /\ collided' = collided
    BY <1>1, <2>1, <2>2, StaysInv
  <2>3. CASE \E u \in Users : Outside(u) \/ AcquireTake(u) \/ ClearErrno(u)
    BY <1>1, <2>1, <2>3, OutsideInv, TakeInv, ClearInv
  <2>4. CASE \E u \in Users : Releases(u)
    BY <1>1, <2>1, <2>4, ReleaseInv DEF Releases
  <2>6. CASE \E id \in Ids \cup {"all"} : dtp_stop_transfer(id)
    BY <1>1, <2>6, StopInv
  <2> QED BY <1>1, <2>2, <2>3, <2>4, <2>6, Steps
<1>2. ASSUME Inv, UNCHANGED vars PROVE Inv'
  <2>1. Inv /\ slots' = slots /\ last_error' = last_error /\ conns' = conns /\ port' = port
        /\ user' = user /\ collided' = collided
    BY <1>2 DEF vars
  <2>2. TypeOK' /\ LocalInv' /\ ConnsAccounted'
    BY <2>1 DEF Inv, TypeOK, LocalInv, Local, ConnsAccounted
  <2>3. SlotsExclusive' /\ StopHeard'
    BY <2>1 DEF Inv, SlotsExclusive, Holds, StopHeard, SlotOf
  <2>4. CleanInv'
    BY <2>1 DEF Inv, CleanInv, Cleaned
  <2> QED BY <2>2, <2>3, <2>4 DEF Inv
<1> QED BY <1>1, <1>2

\* Inv holds in every state of the pool.
LEMMA InvAlways == Spec => []Inv
  BY InvInit, InvNext, PTL DEF Spec

\* dtp_acquire_session and dtp_release_session keep every session with one
\* thread, for any number of threads and sessions.
THEOREM Exclusive == Spec => []SlotsExclusive
<1>1. Inv => SlotsExclusive
  BY DEF Inv
<1> QED BY InvAlways, <1>1, PTL

\* dtp_stop_transfer reaches the sessions it names and no other.
THEOREM StopReaches == Spec => []StopHeard
<1>1. Inv => StopHeard
  BY DEF Inv
<1> QED BY InvAlways, <1>1, PTL

\* No call of the client keeps a connection, but for those that got no buffer.
THEOREM Connections == Spec => []ConnsAccounted
<1>1. Inv => ConnsAccounted
  BY DEF Inv
<1> QED BY InvAlways, <1>1, PTL

\* apm_on_end closes what apm_on_start opened, unless the port was taken.
THEOREM Streams == Spec => []StreamsClosed
<1>1. Inv => StreamsClosed
  BY DEF Inv, LocalInv, Local, StreamsClosed
<1> QED BY InvAlways, <1>1, PTL

\* dtp_prepare_session does not take the error number of an earlier session for
\* its own, for any number of threads and sessions, unless the release of that
\* session is not over.
THEOREM ErrorsAreOwn == Spec => []NoStaleError
<1>1. Inv => NoStaleError
  BY DEF Inv, CleanInv, Cleaned, NoStaleError, SlotOf
<1> QED BY InvAlways, <1>1, PTL
====

------------------------------- MODULE MCPool -------------------------------
(* DtpSessionPool for TLC: threads and connections are interchangeable, and *)
(* states that differ only in what no later step and no property reads are  *)
(* the same.                                                                *)
EXTENDS DtpSessionPool, TLC

Symmetry == Permutations(Users \ VmemUsers) \cup Permutations(Conns)

\* active is read while a thread receives, session_id while the session is in
\* use; of an error number only whether there is one; last_error never.
View ==
    <<[s \in Slots |->
          <<slots[s].in_use, slots[s].errno = "no_err", slots[s].conn,
            slots[s].active /\ \E u \in Users : user[u].slot = s /\ user[u].pc \in {"bind", "loop"},
            IF slots[s].in_use THEN slots[s].session_id ELSE "none">>],
      conns, port, user, collided>>
=============================================================================

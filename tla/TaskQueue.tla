----------------------------- MODULE TaskQueue -----------------------------
(***************************************************************************)
(* The handover queue of internal/taskqueue: what each operation of Queue  *)
(* does to the store.  Every operation holds the queue's lock from its     *)
(* first read to its last write, so each is one function from the store it *)
(* finds to the store it leaves.  Times, priorities and the event history  *)
(* of a task are left out.                                                 *)
(***************************************************************************)
CONSTANTS Agents,   \* the agents that own tasks or are given them
          Tasks,    \* the issue numbers
          NoAgent   \* the AssignedAgent of a task nobody was given

Statuses == {"pending", "assigned", "completed", "failed"}

\* A task of the store, or its absence.
Absent == [status |-> "absent", from |-> NoAgent, to |-> NoAgent]
Entries == [status : Statuses, from : Agents, to : Agents \cup {NoAgent}] \cup {Absent}
Stored(store, t) == store[t].status # "absent"

\* MemoryStore starts empty: the tasks are lost on a restart.
NewStore == [t \in Tasks |-> Absent]

\* Queue.Add refuses a task that is in the store, whatever its status.
Add(store, t, agent) ==
    IF Stored(store, t) THEN store
    ELSE [store EXCEPT ![t] = [status |-> "pending", from |-> agent, to |-> NoAgent]]

\* Queue.Assign, Complete and Fail look at no status: they need the task stored.
Assign(store, t, agent) ==
    IF Stored(store, t)
    THEN [store EXCEPT ![t].status = "assigned", ![t].to = agent] ELSE store

Close(store, t, status) ==
    IF Stored(store, t) THEN [store EXCEPT ![t].status = status] ELSE store

Remove(store, t) == [store EXCEPT ![t] = Absent]
=============================================================================

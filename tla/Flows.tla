------------------------------- MODULE Flows --------------------------------
(* Conversation flows, which are edited while sessions walk through them      *)
(* (services/FlowStore.ts, services/FlowEngine.ts, api/flows.ts). A flow's    *)
(* contents are one of a few graphs: its nodes, the one it starts at, those   *)
(* of type "end" and the transitions. The flow is on disk; the sessions are   *)
(* in memory only. `edited` and `dangling` are history.                       *)
EXTENDS FiniteSets

CONSTANTS Graphs,       \* the contents: [nodes, entry, ends, moves]
          Sessions, NoNode, NoFlow

VARIABLES flow,         \* the flow: its contents, or NoFlow
          disk,         \* as last written
          at,           \* the current node of a session, NoNode before it starts
          ended,        \* the sessions that are over
          edited,       \* the sessions whose flow changed under them
          dangling      \* nodes were once replaced without the entry in the request

vars == <<flow, disk, at, ended, edited, dangling>>

Started == {s \in Sessions : at[s] # NoNode}

Init ==
  /\ flow = NoFlow /\ disk = NoFlow
  /\ at = [s \in Sessions |-> NoNode]
  /\ ended = {} /\ edited = {} /\ dangling = FALSE

\* Memory, then the file; a write that fails is an error to the caller alone.
Save == disk' \in {flow', disk}

\* The entry is compared with the nodes if it is in the request, as it must be in the first.
ValidEntry(g, given) == given => g.entry \in g.nodes

CreateFlow(g) ==
  /\ flow = NoFlow
  /\ ValidEntry(g, TRUE)
  /\ flow' = g
  /\ Save
  /\ UNCHANGED <<at, ended, edited, dangling>>

UpdateFlow(g, given) ==
  /\ flow # NoFlow
  /\ ValidEntry(g, given)
  /\ flow' = IF given THEN g ELSE [g EXCEPT !.entry = flow.entry]
  /\ Save
  /\ edited' = edited \union Started
  /\ dangling' = (dangling \/ ~given)
  /\ UNCHANGED <<at, ended>>

DeleteFlow ==
  /\ flow # NoFlow
  /\ flow' = NoFlow
  /\ Save
  /\ edited' = edited \union Started
  /\ UNCHANGED <<at, ended, dangling>>

StartSession(s) ==
  /\ at[s] = NoNode
  /\ flow # NoFlow
  /\ flow.entry \in flow.nodes
  /\ at' = [at EXCEPT ![s] = flow.entry]
  /\ ended' = IF flow.entry \in flow.ends THEN ended \union {s} ELSE ended
  /\ UNCHANGED <<flow, disk, edited, dangling>>

\* advance(): an input that matches a transition, of a session whose node still exists.
Advance(s) ==
  /\ s \in Started \ ended
  /\ flow # NoFlow
  /\ at[s] \in flow.nodes
  /\ \E n \in flow.nodes :
       /\ <<at[s], n>> \in flow.moves
       /\ at' = [at EXCEPT ![s] = n]
       /\ ended' = IF n \in flow.ends THEN ended \union {s} ELSE ended
  /\ UNCHANGED <<flow, disk, edited, dangling>>

\* The file is read again; sessions are lost.
Restart ==
  /\ flow' = disk
  /\ at' = [s \in Sessions |-> NoNode]
  /\ ended' = {} /\ edited' = {}
  /\ UNCHANGED <<disk, dangling>>

Next ==
  \/ \E g \in Graphs : \/ CreateFlow(g)
                       \/ \E given \in BOOLEAN : UpdateFlow(g, given)
  \/ DeleteFlow
  \/ \E s \in Sessions : StartSession(s) \/ Advance(s)
  \/ Restart

Spec == Init /\ [][Next]_vars

-----------------------------------------------------------------------------
\* A session whose flow nobody edited stands at a node of it, and is over exactly when
\* that node is an end; one whose flow was edited may stand nowhere, which the server
\* answers with an error.
SessionsStandSomewhere ==
  \A s \in Started \ edited :
    /\ flow # NoFlow
    /\ at[s] \in flow.nodes
    /\ s \in ended <=> at[s] \in flow.ends

\* A flow can be started unless nodes were replaced without naming the entry: the
\* router asks that "entryNodeId must reference an existing node" only of what is given.
EntryUnlessDangling == flow # NoFlow /\ ~dangling => flow.entry \in flow.nodes

FlowsSound == SessionsStandSomewhere /\ EntryUnlessDangling
=============================================================================

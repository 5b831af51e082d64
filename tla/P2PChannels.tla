---------------------------- MODULE P2PChannels ----------------------------
(***************************************************************************)
(* The two bounded channels between the event loop of the peer-to-peer     *)
(* server and the rest of the node (node/src/lib.rs, p2p/src/libp2p): what *)
(* peers gossip goes to the app, the commands of tasks and of the RPC      *)
(* server go to the loop.  A send to a full channel waits for room.  What  *)
(* a command does to the set of peers is the subject of PeerDiscovery.     *)
(***************************************************************************)
EXTENDS Naturals, Sequences

CONSTANTS
    Capacity,       \* of each channel, 100 in the code
    Ready, Halted   \* the loop waits for something to do; it has panicked

ASSUME CapacityAssumption == Capacity \in Nat \ {0}

VARIABLES
    p2p_messages,   \* channel::<P2PMessage>
    p2p_commands,   \* number of commands in channel::<P2PCommand>
    p2p_loop        \* Ready, Halted or the message that the loop is sending

channelVars == <<p2p_messages, p2p_commands, p2p_loop>>

Sending == p2p_loop \notin {Ready, Halted}

ChannelsInit ==
    /\ p2p_messages = <<>>
    /\ p2p_commands = 0
    /\ p2p_loop = Ready

ChannelsRestart ==
    /\ p2p_messages' = <<>>
    /\ p2p_commands' = 0
    /\ p2p_loop' = Ready

\* A peer's message arrives; the loop does nothing else until it has sent it on.
Gossip(message) ==
    /\ p2p_loop = Ready
    /\ p2p_loop' = message
    /\ UNCHANGED <<p2p_messages, p2p_commands>>

SendMessage ==
    /\ Sending /\ Len(p2p_messages) < Capacity
    /\ p2p_messages' = Append(p2p_messages, p2p_loop)
    /\ p2p_loop' = Ready
    /\ UNCHANGED p2p_commands

\* P2PMessageHandler takes the next message.
Receive ==
    /\ p2p_messages # <<>>
    /\ p2p_messages' = Tail(p2p_messages)
    /\ UNCHANGED <<p2p_commands, p2p_loop>>

\* Mutant: a command is added to a channel that is full.
SendAlways ==
    /\ p2p_loop # Halted
    /\ p2p_commands' = p2p_commands + 1
    /\ UNCHANGED <<p2p_messages, p2p_loop>>

\* A command is sent by a task, or by add_peer, remove_peer or discover_peers of
\* the RPC server.
SendCommand ==
    /\ p2p_loop # Halted /\ p2p_commands < Capacity
    /\ p2p_commands' = p2p_commands + 1
    /\ UNCHANGED <<p2p_messages, p2p_loop>>

\* The loop carries out the next command.
HandleCommand ==
    /\ p2p_loop = Ready /\ p2p_commands > 0
    /\ p2p_commands' = p2p_commands - 1
    /\ UNCHANGED <<p2p_messages, p2p_loop>>

\* The loop panics on an event of the swarm, in a build that unwinds.  Its ends
\* of the channels are dropped: what it has sent on can still be received, its
\* commands are lost.
LoopPanics ==
    /\ p2p_loop = Ready
    /\ p2p_loop' = Halted
    /\ p2p_commands' = 0
    /\ UNCHANGED p2p_messages
=============================================================================

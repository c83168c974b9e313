---------------------------- MODULE FrameChannel ----------------------------
(***************************************************************************)
(* What the frames of src/protocol.c promise: one direction of a           *)
(* connection is a queue of whole messages.  A message is sent or it is    *)
(* not, messages arrive in order, none twice, and an end of file is        *)
(* reported only if everything arrived and no message was cut off.         *)
(***************************************************************************)
EXTENDS Naturals, Sequences

CONSTANT Message

VARIABLES
    sent,       \* the messages whose send has succeeded
    half,       \* whether a message is, or was left, half sent
    got,        \* the messages received
    outcome     \* "open", then how the receiver found the connection ended

channel == <<sent, half, got, outcome>>

ChannelInit == sent = << >> /\ half = FALSE /\ got = << >> /\ outcome = "open"

Start == /\ outcome # "eof"
         /\ half' = TRUE
         /\ UNCHANGED <<sent, got, outcome>>

Send(m) == /\ outcome # "eof"
           /\ sent' = Append(sent, m)
           /\ half' = FALSE
           /\ UNCHANGED <<got, outcome>>

Receive == /\ outcome = "open"
           /\ Len(got) < Len(sent)
           /\ got' = Append(got, sent[Len(got) + 1])
           /\ UNCHANGED <<sent, half, outcome>>

EndOfFile == /\ outcome = "open"
             /\ got = sent /\ ~half
             /\ outcome' = "eof"
             /\ UNCHANGED <<sent, half, got>>

Lose == /\ outcome = "open"
        /\ outcome' = "lost"
        /\ UNCHANGED <<sent, half, got>>

ChannelNext == Start \/ (\E m \in Message : Send(m)) \/ Receive \/ EndOfFile \/ Lose

ChannelSpec == ChannelInit /\ [][ChannelNext]_channel
=============================================================================

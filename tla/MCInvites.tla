------------------------------ MODULE MCInvites ------------------------------
(* One user; a level and a course of two chats, or a channel and a course    *)
(* that has no chat.                                                         *)
EXTENDS Invites

CONSTANTS level, course, channel

MCSource == [d \in Destinations |-> CASE d = level -> "level" [] d = course -> "course" [] OTHER -> "channel"]
MCRights == {"subscription", course}
MCSeedChats ==
    {[d \in {level, course} |-> IF d = level THEN "hall" ELSE "club"],
     [d \in {channel, course} |-> IF d = channel THEN "hall" ELSE NoChat]}
MCSeedUntil == [u \in Users |-> [r \in Rights |-> IF r = "subscription" THEN 1 ELSE 2]]
MCEdits ==
    {[dest |-> level, chat |-> "club", active |-> TRUE],
     [dest |-> course, chat |-> "club", active |-> FALSE]}
=============================================================================

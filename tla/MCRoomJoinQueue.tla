-------------------------- MODULE MCRoomJoinQueue --------------------------
EXTENDS RoomJoinQueue, TLC
=============================================================================

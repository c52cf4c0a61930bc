SPECIFICATION MsgSpec
CONSTANTS
    alice = alice
    nodeinfo = nodeinfo
    bob = bob
    Senders = {alice, nodeinfo}
    Airtimes = {2}
    Limit = 3
    Window = 1
    Horizon = 2
    MaxEmissions = 3
    MaxBoots = 2
    Chats = {alice}
    Foreign = {bob}
    MaxHeard = 2
INVARIANTS MsgTypeOK DutyBound AirtimeAccounted OneRowUnlessOverlap AnsweredIsStored
CHECK_DEADLOCK FALSE

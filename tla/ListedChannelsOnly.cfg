SPECIFICATION MqttSpec
CONSTANTS
    Hashings <- MCHashings
    AllowLists = {{"Club"}}
    Modes = {"local"}
INVARIANT ListedChannelsOnly

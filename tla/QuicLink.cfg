\* Two options on either side, of which one may re-register the default protocol, name
\* one without a codec or replace the list; two Sends on a window of one frame.
CONSTANTS
    Name <- MCName
    Default = "gophersocks"
    Codec <- MCCodec
    Legacy = "legacy"
    None = None
    Pairs <- MCPairs
    Lists <- MCLists
    Options = 2
    Sends = {s1, s2}
    Junk = Junk
    Window = 1
SPECIFICATION FairSpec
CHECK_DEADLOCK FALSE
INVARIANTS FramedAlike NewestPreferred InOrder NobodyStuck
PROPERTIES NobodyWaits EchoAnswered

\* Two owners on different servers: whose address does a request go to?
CONSTANTS
    MaxJobs = 1
    NBlocks = 1
    Owners <- MCTwoOwners
    Named <- MCTwoOwners
    Sources = {src}
    None = None
SPECIFICATION TftpSpec
PROPERTY RequestToOwnPeer

SPECIFICATION SessionsFairSpec
CONSTANTS
    c1 = c1
    c2 = c2
    c3 = c3
    phone = phone
    laptop = laptop
    host = host
    peer = peer
    third = third
    x1 = x1
    x2 = x2
    Conns = {c1, c2, c3}
    Device <- TwoDevices
    Streams <- Winners
    Limit = 1
    Host = host
    Others = {peer, third}
    Neighbours <- Chain
    Lifetime = 1
INVARIANTS WorkingCounts SeenIsHonest
PROPERTY GoneIsForgotten

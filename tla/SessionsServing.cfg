SPECIFICATION SessionsSpec
CONSTANTS
    c1 = c1
    c2 = c2
    c3 = c3
    phone = phone
    laptop = laptop
    host = host
    peer = peer
    third = third
    x1 = x1
    x2 = x2
    Conns = {c1, c2}
    Device <- OnePhone
    Streams <- OneEach
    Limit = 0
    Host = host
    Others = {peer}
    Neighbours <- OneLink
    Lifetime = 2
INVARIANT ServingCounts

SPECIFICATION MCSpec
CONSTANTS
    s1 = s1
    s2 = s2
    s3 = s3
    Device <- MCDevice
    Size <- MCSize
    buffer_size = 3
    data_batch_size = 2
    max_packet_size = 2
    DatagramPackets = 2
    MaxMessages = 8
SYMMETRY Symmetry
INVARIANTS
    TrafficTypeOK
    BufferBounded
    EachMessageOnce
    DiesOfStaleRemovalOnly

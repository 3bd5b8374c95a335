SPECIFICATION Spec
CONSTANTS
    Critical = Critical
    Background = Background
    Tcp1 = Tcp1
    Udp1 = Udp1
    Udp2 = Udp2
    Slices <- MCSlices
    TcpFlows <- MCTcpFlows
    UdpFlows <- MCUdpFlows
    SliceOf <- MCSliceOf
    Sends <- MCSends
    QueueSize = 2
    ResultsSize = 1
PROPERTY AckReportsDrop
CHECK_DEADLOCK FALSE

SPECIFICATION ProcessesSpec
CONSTANTS
    inC = inC  inPerl = inPerl  missing = missing
    Pids = {p1, p2, p3, p4}
    Commands = {1}
    Services = {inC, inPerl, missing}
    CServices = {inC, missing}
    Implemented = {inC}
    Apps <- SomeApps
    Careful = TRUE
    MaxCommands = 3
    Browsers = {b1, b2}
    Workers = {w1, w2}
    Threads = {thread}
    Batches <- SomeBatches
    Multipart <- SomeMultipart
    Service = "service"
    MaxHttp = 2
    Fds = {3, 4}
    Timeouts <- SomeTimeouts
    Reuse = FALSE
    MaxConnects = 2
    MaxStanzas = 2
    MaxOthers = 1
SYMMETRY Interchangeable
INVARIANTS MessagesWhole ConnectedIsLoggedIn ListenerNamed StopStops OwnAnswers WholeAnswer CachedIsConnected
PROPERTIES OwnDescriptor
CHECK_DEADLOCK FALSE

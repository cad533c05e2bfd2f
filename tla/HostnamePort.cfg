SPECIFICATION HostnameSpec
CONSTANTS
    Host <- MCPortHost
    Ip = {ip1}
    Norm <- MCPortName
    NoPort <- MCPortName
    WithPort = {"www:80", "web:80"}
INVARIANTS
    FoundWasCached

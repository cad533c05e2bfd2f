SPECIFICATION HostnameSpec
CONSTANTS
    Host <- MCHost
    Ip = {ip1}
    Norm <- MCNorm
    NoPort <- MCNoPort
    WithPort = {}
PROPERTIES
    HttpRiskIsUnresolved

SPECIFICATION CallsSpec
CONSTANTS
    PathSize = 4
    Ip4Addresses <- MCIp4Addresses
    Ip6Addresses <- MCIp6Addresses
    Texts <- MCTexts
    RemoteAddresses <- MCRemoteAddresses
    Messages <- MCMessages
    Cuts <- MCCuts
INVARIANTS CidrExact PrintedReturns DocumentedFormats RemotePrinted VariantsAgree CrcIsRemainder

SPECIFICATION Spec
CONSTANTS
    Users <- MCUsers
    OrganizationRole <- MCOrganizationRole
    Codes <- MCCodes
    TakenCodes = {"used"}
    MaxVersion = 3
    Calls <- MCCalls
    None = None
INVARIANTS
    IInv
    EventsAgree
PROPERTIES
    NoLostUpdate
    RegisterHolds

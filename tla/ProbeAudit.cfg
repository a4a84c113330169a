SPECIFICATION FairSpec
CONSTANTS
    ctl = ctl
    node = node
    HostOrder <- MCOrder
    OwnHost = ctl
    Degree = 2
    Roles <- MCRoles
    Override <- MCOverride
    Disabled = {"ssh.service"}
    SlurmNodes <- MCNodes
    Installed <- MCInstalled
    Changing <- MCChanging
 
PROPERTIES SilenceNoticed
CHECK_DEADLOCK FALSE

SPECIFICATION FairRunner
CONSTANTS
    mount = mount
    gpu = gpu
    journal = journal
    Probe = {mount, gpu, journal}
    Policy <- MCPolicy
    MaxCount = 3
    Entry = {1, 2, 3}
    Key <- MCKey
    Limit <- MCLimit
    Roomy = {gpu}
    Stat = {3}
    Gpu = {1}
    MaxThreads = 2
    MaxEvents = 1
INVARIANTS SlotsBalanced
 

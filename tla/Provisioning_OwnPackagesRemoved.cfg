SPECIFICATION Spec
CONSTANTS
  Invocations = {p1}
  Required = {"qemu"}
  Packages = {"qemu-system-x86", "qemu-utils"}
  Needs <- QemuPackages
  Mapped <- QemuPackages
  Preferences = {"docker", "podman"}
  UserThings = {}
CHECK_DEADLOCK FALSE
PROPERTIES
  OwnPackagesRemoved
